---- MODULE Spec2Model ----
(***************************************************************************)
(* Model of the identity-resolution and record-linkage pipeline of the     *)
(* gaming-reduction backend (monitoring/join_diary_activitywatch.py and    *)
(* monitoring/parse_json_uploads.py), of its screenshot OCR                *)
(* (monitoring/ocr/gemini_screenshot_analyzer.py) and of the rate-limit    *)
(* retry of its Qualtrics client (monitoring/qualtrics_image_downloader.py). *)
(*                                                                         *)
(* Python values are tagged records: a str is a sequence of one-character  *)
(* strings, so that strip(), str() and the parsers are computed, not       *)
(* assumed.  Each group of claims has its own specification over the       *)
(* shared variables; the variables a specification does not use stay at    *)
(* their idle values.                                                      *)
(***************************************************************************)
EXTENDS Integers, Sequences, FiniteSets, TLC

VARIABLES
    \* deduplicator harness (deduplicate_app_usage / deduplicate_screen_unlocks)
    kind, data, deduplicated_data, deduplicated_again, dpc,
    \* main(): position, input files and the identity maps
    pc, diary_file, exit_file, diary_submission_mapping, exit_submission_mapping,
    submission_mapping,
    \* study-calendar harness (generate_participant_report, lines 646-653)
    given, session_datetime, enrollment_date_str, enrollment_date, study_day,
    study_days, spc

\* main, from the decoded files to the statistics: the files of the run, the
\* loaded usage data, the contact dict, the joined and deduplicated records,
\* the participant report and the unmapped submission ids
VARIABLES app_usage_file, screen_unlocks_file, contact_file,
          app_usage_data, screen_unlocks_data, contact_data,
          joined_app_usage, joined_screen_unlocks,
          deduplicated_app_usage, deduplicated_screen_unlocks,
          participant_report, unmapped_submission_ids

\* parse_supabase_data: the raw uploads file, the records it collects and its
\* counters
VARIABLES uploads_file, app_usage_records, screen_unlocks_records,
          processed_count, error_count, platform_counts

\* screenshot OCR (ocr/gemini_screenshot_analyzer.py): the *_analysis.json
\* artifacts on disk, the last process_single_image call, the images a
\* directory run has still to process, its statistics, and the options of
\* the command line
VARIABLES artifacts, call, image_files, results, run_args, ocr_pc

\* Qualtrics client (qualtrics_image_downloader.py): the call in progress,
\* the attempt of its loop, the status codes received, the waits slept, how
\* the call ended and how often the output file was written
VARIABLES operation, attempt, responses, waits, outcome, files_written

\* the orchestrator (join_diary_activitywatch.main): the options of the
\* command line, the ages is_file_recent finds in debug mode, and how each
\* pull of the data ended
VARIABLES args, files_status, pull_success

\* what the child processes of the run can do, and what the child of the last
\* subprocess.run did
VARIABLES children, child

\* the iOS orchestrator (join_diary_ios.main): whether diary_images/ios
\* exists, the steps run_ocr_analysis started with how their processes
\* ended, what it returned, the rows of the iOS participant report, the file
\* participant_report_ios.csv and what generate_ios_participant_report
\* returned
VARIABLES ios_dir, ocr_steps, ocr_success, ios_participant_report, ios_report_file,
          ios_report_success

\* the reminder scheduler (twilio_scheduler.py): the messages of the
\* conversation, newest first, and the last send_message call
VARIABLES conversation, sent

\* the participant aggregator (ocr/participant_aggregator.py): the position
\* of process_participant_images with its option, the files it found, the
\* images left, the images whose analysis it started and its statistics
VARIABLES aggregation

\* run_job of the reminder scheduler: its position, the contacts, the index
\* of the loop, the rows collected, the send attempts made, the rows of
\* scheduled_messages.csv and the exception that left the function
VARIABLES job

\* the app classifier (ocr/app_game_classifier.py): its cache in memory and
\* on disk, and the last classify_apps_batch call with the cache it found,
\* the apps of its prompt and its results
VARIABLES classifier

dedupVars == <<kind, data, deduplicated_data, deduplicated_again, dpc>>

identityVars == <<diary_file, exit_file, diary_submission_mapping,
                  exit_submission_mapping, submission_mapping>>

mainVars == <<pc, identityVars>>

calendarVars == <<given, session_datetime, enrollment_date_str, enrollment_date, study_day,
                  study_days, spc>>

joinVars == <<app_usage_file, screen_unlocks_file, contact_file,
              app_usage_data, screen_unlocks_data, contact_data,
              joined_app_usage, joined_screen_unlocks,
              deduplicated_app_usage, deduplicated_screen_unlocks,
              participant_report, unmapped_submission_ids>>
decodeVars == <<uploads_file, app_usage_records, screen_unlocks_records,
                processed_count, error_count, platform_counts>>
ocrVars == <<artifacts, call, image_files, results, run_args, ocr_pc>>
retryVars == <<operation, attempt, responses, waits, outcome, files_written>>
pullVars == <<args, files_status, pull_success, children, child>>
iosVars == <<ios_dir, ocr_steps, ocr_success, ios_participant_report, ios_report_file,
             ios_report_success>>
twilioVars == <<conversation, sent>>
aggVars == <<aggregation>>
jobVars == <<job>>
classifierVars == <<classifier>>
laterVars == <<twilioVars, aggVars, jobVars, classifierVars>>
extVars == <<pullVars, iosVars, laterVars>>
clientVars == <<ocrVars, retryVars, extVars>>
vars == <<dedupVars, mainVars, calendarVars, joinVars, decodeVars, clientVars>>

-----------------------------------------------------------------------------
(* Bounds of the model *)

\* longest list of joined records handed to a deduplicator
MaxRows == 3

\* most rows of the diary survey export
MaxDiaryRows == 3

\* most rows of the exit survey export
MaxExitRows == 1

\* sessions fall on the base date plus 0..MaxSpan days
MaxSpan == 32

\* enrollment dates fall on the base date plus 0..MaxEnrollOffset days
MaxEnrollOffset == 3
MaxAppRows == 2
MaxUploads == 3

\* longest list of joined records handed to the participant report
MaxReportRows == 2

-----------------------------------------------------------------------------
(* Python values *)

Str(s) == [str |-> s]
PyInt(n) == [int |-> n]
\* a float n.frac; frac holds the decimal digits without trailing zeros (42.0
\* has none)
PyFloatFrac(n, frac) == [float |-> n, frac |-> frac]
PyFloat(n) == PyFloatFrac(n, <<>>)
NaN == [nan |-> TRUE]
\* pandas Timestamp: calendar date <<y, m, d>> and time of day <<h, m, s>>
Timestamp(d, t) == [ts |-> <<d, t>>]
NaT == [nat |-> TRUE]

IsStr(v) == DOMAIN v = {"str"}
IsInt(v) == DOMAIN v = {"int"}
IsFloat(v) == DOMAIN v = {"float", "frac"}
IsNaN(v) == DOMAIN v = {"nan"}
IsTimestamp(v) == DOMAIN v = {"ts"}
IsNaT(v) == DOMAIN v = {"nat"}

DigitChars == <<"0", "1", "2", "3", "4", "5", "6", "7", "8", "9">>

RECURSIVE Digits(_)
Digits(n) ==
    IF n < 10 THEN <<DigitChars[n + 1]>>
    ELSE Digits(n \div 10) \o <<DigitChars[(n % 10) + 1]>>

Pad2(n) == <<DigitChars[((n \div 10) % 10) + 1], DigitChars[(n % 10) + 1]>>
Pad4(n) == Pad2(n \div 100) \o Pad2(n % 100)

\* "%Y-%m-%d %H:%M:%S"
FormatDateTime(d, t) ==
    Pad4(d[1]) \o <<"-">> \o Pad2(d[2]) \o <<"-">> \o Pad2(d[3]) \o <<" ">>
    \o Pad2(t[1]) \o <<":">> \o Pad2(t[2]) \o <<":">> \o Pad2(t[3])

\* str(v)
PyStr(v) ==
    CASE IsStr(v) -> v.str
      [] IsInt(v) -> Digits(v.int)
      [] IsFloat(v) -> Digits(v.float) \o <<".">>
                       \o (IF v.frac = <<>> THEN <<"0">> ELSE v.frac)
      [] IsNaN(v) -> <<"n", "a", "n">>
      [] IsTimestamp(v) -> FormatDateTime(v.ts[1], v.ts[2])
      [] IsNaT(v) -> <<"N", "a", "T">>

IsSpace(c) == c \in {" ", "\t", "\n"}

RECURSIVE LStrip(_)
LStrip(s) == IF s # <<>> /\ IsSpace(Head(s)) THEN LStrip(Tail(s)) ELSE s

RECURSIVE RStrip(_)
RStrip(s) ==
    IF s # <<>> /\ IsSpace(s[Len(s)]) THEN RStrip(SubSeq(s, 1, Len(s) - 1)) ELSE s

\* s.strip()
Strip(s) == RStrip(LStrip(s))

\* hasattr(v, 'strftime'): datetime-like values, NaT included
HasStrftime(v) == IsTimestamp(v) \/ IsNaT(v)

\* characters in code-point order
Alphabet ==
    <<"\t", "\n", " ", "-", ".", "/", "0", "1", "2", "3", "4", "5", "6", "7", "8",
      "9", ":", "A", "N", "O", "P", "T", "a", "b", "c", "d", "e", "h", "i", "n",
      "o", "r", "t", "x", "z", "|">>

CodePoint(c) == CHOOSE i \in 1..Len(Alphabet) : Alphabet[i] = c

\* a < b for two str values (lexicographic by code point)
RECURSIVE StrLess(_, _)
StrLess(a, b) ==
    IF b = <<>> THEN FALSE
    ELSE IF a = <<>> THEN TRUE
    ELSE IF Head(a) = Head(b) THEN StrLess(Tail(a), Tail(b))
    ELSE CodePoint(Head(a)) < CodePoint(Head(b))

\* insert x into the sorted list l, after the elements equal to it
RECURSIVE InsertSorted(_, _)
InsertSorted(x, l) ==
    IF l = <<>> THEN <<x>>
    ELSE IF StrLess(x, Head(l)) THEN <<x>> \o l
    ELSE <<Head(l)>> \o InsertSorted(x, Tail(l))

\* sorted(l) for a list of str
RECURSIVE Sorted(_)
Sorted(l) == IF l = <<>> THEN <<>> ELSE InsertSorted(l[Len(l)], Sorted(SubSeq(l, 1, Len(l) - 1)))

\* [x for x in l if x]
RECURSIVE NonEmpty(_)
NonEmpty(l) ==
    IF l = <<>> THEN <<>>
    ELSE (IF Head(l) # <<>> THEN <<Head(l)>> ELSE <<>>) \o NonEmpty(Tail(l))

\* a file that does not exist / a CSV file with its data rows
NoFile == [missing |-> TRUE]
File(rows) == [rows |-> rows]
Exists(f) == DOMAIN f = {"rows"}

\* dict d with d[k] = v set
DictSet(d, k, v) == [x \in DOMAIN d \cup {k} |-> IF x = k THEN v ELSE d[x]]

\* d.copy(); d.update(e)
DictUpdate(d, e) == [x \in DOMAIN d \cup DOMAIN e |-> IF x \in DOMAIN e THEN e[x] ELSE d[x]]

EmptyDict == [x \in {} |-> <<>>]

\* all sequences over S of length 0..n
SeqUpTo(S, n) == UNION {[1..k -> S] : k \in 0..n}

-----------------------------------------------------------------------------
(* Deduplicator: join_diary_activitywatch.py, deduplicate_app_usage and    *)
(* deduplicate_screen_unlocks                                              *)

session_datetime_key(session_datetime_raw) ==
    IF HasStrftime(session_datetime_raw)
    THEN PyStr(session_datetime_raw)
    ELSE Strip(PyStr(session_datetime_raw))

combination_key_app(row) ==
    <<Strip(PyStr(row.RANDOM_ID)),
      session_datetime_key(row.session_datetime),
      Strip(PyStr(row.App)),
      Strip(PyStr(row.Duration_min)),
      Strip(PyStr(row.platform))>>

combination_key_unlock(row) ==
    <<Strip(PyStr(row.RANDOM_ID)),
      session_datetime_key(row.session_datetime),
      Strip(PyStr(row.platform))>>

RECURSIVE app_usage_loop(_, _, _, _)
app_usage_loop(rows, i, seen_combinations, acc) ==
    IF i > Len(rows) THEN acc
    ELSE LET key == combination_key_app(rows[i]) IN
         IF key \in seen_combinations
         THEN app_usage_loop(rows, i + 1, seen_combinations, acc)
         ELSE app_usage_loop(rows, i + 1, seen_combinations \cup {key},
                             Append(acc, rows[i]))

\* a deduplicator that remembers only the key of the previous row
RECURSIVE app_usage_loop_adjacent(_, _, _, _)
app_usage_loop_adjacent(rows, i, seen_combinations, acc) ==
    IF i > Len(rows) THEN acc
    ELSE LET key == combination_key_app(rows[i]) IN
         IF key \in seen_combinations
         THEN app_usage_loop_adjacent(rows, i + 1, seen_combinations, acc)
         ELSE app_usage_loop_adjacent(rows, i + 1, {key}, Append(acc, rows[i]))

\* a deduplicator that keeps the last occurrence of each key
RECURSIVE app_usage_loop_last(_, _, _)
app_usage_loop_last(rows, i, acc) ==
    IF i > Len(rows) THEN acc
    ELSE IF \E j \in (i + 1)..Len(rows) :
               combination_key_app(rows[j]) = combination_key_app(rows[i])
         THEN app_usage_loop_last(rows, i + 1, acc)
         ELSE app_usage_loop_last(rows, i + 1, Append(acc, rows[i]))

\* a deduplicator whose key also holds the submission_id
RECURSIVE app_usage_loop_by_submission(_, _, _, _)
app_usage_loop_by_submission(rows, i, seen_combinations, acc) ==
    IF i > Len(rows) THEN acc
    ELSE LET key == <<combination_key_app(rows[i]), PyStr(rows[i].submission_id)>> IN
         IF key \in seen_combinations
         THEN app_usage_loop_by_submission(rows, i + 1, seen_combinations, acc)
         ELSE app_usage_loop_by_submission(rows, i + 1, seen_combinations \cup {key},
                                           Append(acc, rows[i]))

deduplicate_app_usage_by_submission(rows) ==
    app_usage_loop_by_submission(rows, 1, {}, <<>>)

deduplicate_app_usage_keep_last(rows) == app_usage_loop_last(rows, 1, <<>>)

deduplicate_app_usage_adjacent(rows) == app_usage_loop_adjacent(rows, 1, {}, <<>>)

deduplicate_app_usage(rows) == app_usage_loop(rows, 1, {}, <<>>)

RECURSIVE screen_unlocks_loop(_, _, _, _)
screen_unlocks_loop(rows, i, seen_combinations, acc) ==
    IF i > Len(rows) THEN acc
    ELSE LET key == combination_key_unlock(rows[i]) IN
         IF key \in seen_combinations
         THEN screen_unlocks_loop(rows, i + 1, seen_combinations, acc)
         ELSE screen_unlocks_loop(rows, i + 1, seen_combinations \cup {key},
                                  Append(acc, rows[i]))

deduplicate_screen_unlocks(rows) == screen_unlocks_loop(rows, 1, {}, <<>>)

-----------------------------------------------------------------------------
(* Calendar and date parsing: datetime.date arithmetic, datetime.strptime   *)
(* and datetime.fromisoformat as parse_enrollment_date and                  *)
(* calculate_study_day use them                                             *)

None == [none |-> TRUE]
IsNone(v) == DOMAIN v = {"none"}
\* a Python datetime: calendar date <<y, m, d>> and time of day <<h, m, s>>
DateTime(d, t) == [dt |-> <<d, t>>]
IsDateTime(v) == DOMAIN v = {"dt"}

IsLeap(y) == (y % 4 = 0) /\ ((y % 100 # 0) \/ (y % 400 = 0))

DaysInMonth(y, m) ==
    CASE m \in {1, 3, 5, 7, 8, 10, 12} -> 31
      [] m \in {4, 6, 9, 11} -> 30
      [] m = 2 -> IF IsLeap(y) THEN 29 ELSE 28

RECURSIVE DaysBeforeMonth(_, _)
DaysBeforeMonth(y, m) ==
    IF m = 1 THEN 0 ELSE DaysBeforeMonth(y, m - 1) + DaysInMonth(y, m - 1)

DaysBeforeYear(y) ==
    (y - 1) * 365 + ((y - 1) \div 4) - ((y - 1) \div 100) + ((y - 1) \div 400)

\* date.toordinal()
ToOrdinal(d) == DaysBeforeYear(d[1]) + DaysBeforeMonth(d[1], d[2]) + d[3]

ValidDate(y, m, d) == y \in 1..9999 /\ m \in 1..12 /\ d \in 1..DaysInMonth(y, m)

IsDigit(c) == \E n \in 1..10 : DigitChars[n] = c

DigitVal(c) == (CHOOSE n \in 1..10 : DigitChars[n] = c) - 1

RECURSIVE NumVal(_)
NumVal(digits) ==
    IF digits = <<>> THEN 0
    ELSE NumVal(SubSeq(digits, 1, Len(digits) - 1)) * 10 + DigitVal(digits[Len(digits)])

\* the longest prefix of s made of digits
RECURSIVE DigitRun(_)
DigitRun(s) ==
    IF s # <<>> /\ IsDigit(Head(s)) THEN <<Head(s)>> \o DigitRun(Tail(s)) ELSE <<>>

\* s cut into maximal runs of digits and single other characters
RECURSIVE Tokenize(_)
Tokenize(s) ==
    IF s = <<>> THEN <<>>
    ELSE IF IsDigit(Head(s))
         THEN LET run == DigitRun(s) IN
              <<[num |-> run]>> \o Tokenize(SubSeq(s, Len(run) + 1, Len(s)))
         ELSE <<[sep |-> Head(s)]>> \o Tokenize(Tail(s))

IsNum(tok) == DOMAIN tok = {"num"}

\* one strptime directive against one token: the field's width and range
DirectiveMatches(directive, tok) ==
    /\ IsNum(tok)
    /\ LET n == Len(tok.num)
           v == NumVal(tok.num)
       IN  CASE directive = "%Y" -> n = 4
             [] directive = "%m" -> n \in {1, 2} /\ v \in 1..12
             [] directive = "%d" -> n \in {1, 2} /\ v \in 1..31
             [] directive = "%H" -> n \in {1, 2} /\ v \in 0..23
             [] directive = "%M" -> n \in {1, 2} /\ v \in 0..59
             [] directive = "%S" -> n \in {1, 2} /\ v \in 0..59

IsDirective(f) == f \in {"%Y", "%m", "%d", "%H", "%M", "%S"}

FormatMatches(fmt, toks) ==
    /\ Len(fmt) = Len(toks)
    /\ \A i \in 1..Len(fmt) :
           IF IsDirective(fmt[i]) THEN DirectiveMatches(fmt[i], toks[i])
           ELSE ~IsNum(toks[i]) /\ toks[i].sep = fmt[i]

\* the value of directive f in the parsed string, or dflt when the format has none
FieldOf(fmt, toks, f, dflt) ==
    IF \E i \in 1..Len(fmt) : fmt[i] = f
    THEN NumVal(toks[CHOOSE i \in 1..Len(fmt) : fmt[i] = f].num)
    ELSE dflt

\* datetime.strptime(s, fmt): the datetime, or None for ValueError
Strptime(s, fmt) ==
    LET toks == Tokenize(s) IN
    IF ~FormatMatches(fmt, toks) THEN None
    ELSE LET y == FieldOf(fmt, toks, "%Y", 1900)
             m == FieldOf(fmt, toks, "%m", 1)
             d == FieldOf(fmt, toks, "%d", 1)
         IN  IF ~ValidDate(y, m, d) THEN None
             ELSE DateTime(<<y, m, d>>,
                           <<FieldOf(fmt, toks, "%H", 0), FieldOf(fmt, toks, "%M", 0),
                             FieldOf(fmt, toks, "%S", 0)>>)

FmtYmd == <<"%Y", "-", "%m", "-", "%d">>
FmtMdy == <<"%m", "/", "%d", "/", "%Y">>
FmtDmy == <<"%d", "/", "%m", "/", "%Y">>
FmtHms == <<" ", "%H", ":", "%M", ":", "%S">>

formats_to_try == <<FmtYmd, FmtMdy, FmtDmy, FmtYmd \o FmtHms, FmtMdy \o FmtHms>>

RECURSIVE try_formats(_, _, _)
try_formats(s, formats, i) ==
    IF i > Len(formats) THEN None
    ELSE LET r == Strptime(s, formats[i]) IN
         IF IsNone(r) THEN try_formats(s, formats, i + 1) ELSE r

\* parse_enrollment_date(date_str): a datetime or None
parse_enrollment_date(date_str) ==
    IF date_str = <<>> THEN None
    ELSE try_formats(Strip(date_str), formats_to_try, 1)

\* fixed-width fields, as datetime.fromisoformat requires them
IsoWidths(toks, idx) == \A i \in idx : IsNum(toks[i]) /\ Len(toks[i].num) = 2

\* datetime.fromisoformat(s) for "YYYY-MM-DD" and "YYYY-MM-DD?HH:MM:SS",
\* or None for ValueError
FromIsoFormat(s) ==
    LET toks == Tokenize(s) IN
    IF Len(toks) = 5 /\ FormatMatches(FmtYmd, toks) /\ IsoWidths(toks, {3, 5})
    THEN Strptime(s, FmtYmd)
    ELSE IF /\ Len(toks) = 11
            /\ ~IsNum(toks[6])
            /\ FormatMatches(FmtYmd \o <<toks[6].sep>> \o Tail(FmtHms), toks)
            /\ IsoWidths(toks, {3, 5, 7, 9, 11})
         THEN Strptime(s, FmtYmd \o <<toks[6].sep>> \o Tail(FmtHms))
         ELSE None

Raise(e) == [raise |-> e]
IsRaise(v) == DOMAIN v = {"raise"}
\* the value a call returned, where the call can raise instead
Returned(v) == [returned |-> v]
Day(n) == [day |-> n]
IsDay(v) == DOMAIN v = {"day"}

\* session_dt of calculate_study_day: a datetime, None when the function
\* returns None, NaT for a missing pandas datetime
session_dt_of(session_datetime_arg) ==
    IF IsStr(session_datetime_arg)
    THEN LET iso == FromIsoFormat(session_datetime_arg.str) IN
         IF ~IsNone(iso) THEN iso
         ELSE Strptime(session_datetime_arg.str, FmtYmd \o FmtHms)
    ELSE IF IsTimestamp(session_datetime_arg)
         THEN DateTime(session_datetime_arg.ts[1], session_datetime_arg.ts[2])
         ELSE session_datetime_arg

\* the valid study period with its last day left out
in_study_period_exclusive(day) == 1 <= day /\ day < 28

\* 1 <= study_day <= 28
in_study_period(day) == 1 <= day /\ day <= 28

\* calculate_study_day(session_datetime, enrollment_date): Day(n), None, or
\* Raise for the exception that leaves the function
study_day_of_session(session_datetime_arg, session_dt, enrollment_date_arg) ==
    IF IsStr(session_datetime_arg) /\ IsNone(session_dt) THEN None
    \* NaT.date() is NaT again, and NaT minus a date is a TypeError
    ELSE IF IsNaT(session_dt) THEN Raise("TypeError")
    ELSE IF ~IsDateTime(session_dt) THEN Raise("AttributeError")
    ELSE IF in_study_period(ToOrdinal(session_dt.dt[1])
                            - ToOrdinal(enrollment_date_arg.dt[1]) + 1)
         THEN Day(ToOrdinal(session_dt.dt[1]) - ToOrdinal(enrollment_date_arg.dt[1]) + 1)
         ELSE None

calculate_study_day(session_datetime_arg, enrollment_date_arg) ==
    IF IsNone(enrollment_date_arg) THEN None
    ELSE study_day_of_session(session_datetime_arg, session_dt_of(session_datetime_arg),
                              enrollment_date_arg)

-----------------------------------------------------------------------------
(* CSV reload: load_activitywatch_data (pandas.read_csv with its per-column *)
(* type inference, then pandas.to_datetime on the *_datetime columns)       *)

\* cells pandas.read_csv reads as missing (some of its default na_values)
NAStrings ==
    {<<>>, <<"n", "a", "n">>, <<"N", "a", "N">>, <<"N", "A">>}

IsNACell(cell) == cell \in NAStrings

AllDigits(s) == s # <<>> /\ \A i \in 1..Len(s) : IsDigit(s[i])

\* an integer literal, surrounding blanks allowed
IsIntCell(cell) == AllDigits(Strip(cell))

\* a decimal literal digits.digits, surrounding blanks allowed
IsFloatCell(cell) ==
    LET toks == Tokenize(Strip(cell)) IN
    /\ Len(toks) = 3
    /\ IsNum(toks[1]) /\ ~IsNum(toks[2]) /\ IsNum(toks[3])
    /\ toks[2].sep = "."

RECURSIVE DropTrailingZeros(_)
DropTrailingZeros(digits) ==
    IF digits # <<>> /\ digits[Len(digits)] = "0"
    THEN DropTrailingZeros(SubSeq(digits, 1, Len(digits) - 1))
    ELSE digits

FloatOfCell(cell) ==
    IF IsIntCell(cell) THEN PyFloat(NumVal(Strip(cell)))
    ELSE LET toks == Tokenize(Strip(cell)) IN
         PyFloatFrac(NumVal(toks[1].num), DropTrailingZeros(toks[3].num))

\* the values of one column: int64 when every cell is an integer, float64 when
\* every cell is a number or missing, else the strings with NaN for the
\* missing cells
infer_column(cells) ==
    IF \A i \in 1..Len(cells) : IsIntCell(cells[i])
    THEN [i \in 1..Len(cells) |-> PyInt(NumVal(Strip(cells[i])))]
    ELSE IF \A i \in 1..Len(cells) :
                IsNACell(cells[i]) \/ IsIntCell(cells[i]) \/ IsFloatCell(cells[i])
    THEN [i \in 1..Len(cells) |->
             IF IsNACell(cells[i]) THEN NaN ELSE FloatOfCell(cells[i])]
    ELSE [i \in 1..Len(cells) |->
             IF IsNACell(cells[i]) THEN NaN ELSE Str(cells[i])]

\* pandas.to_datetime of one value: a Timestamp, NaT for a missing value,
\* Raise for a string that is no date
to_datetime(v) ==
    IF IsNaN(v) THEN NaT
    ELSE IF IsStr(v)
         THEN LET parsed == FromIsoFormat(v.str) IN
              IF IsNone(parsed) THEN Raise("ValueError")
              ELSE Timestamp(parsed.dt[1], parsed.dt[2])
         ELSE Timestamp(<<1970, 1, 1>>, <<0, 0, 0>>)

datetime_columns == {"session_datetime", "created_at_datetime"}

convert_column(col, cells) ==
    LET values == infer_column(cells) IN
    IF col \in datetime_columns
    THEN [i \in 1..Len(cells) |-> to_datetime(values[i])]
    ELSE values

\* load_activitywatch_data(file): Returned(the list of row dicts), or Raise
load_activitywatch_data(rows) ==
    IF rows = <<>> THEN Returned(<<>>)
    ELSE LET columns == [col \in DOMAIN rows[1] |->
                            convert_column(col, [i \in 1..Len(rows) |-> rows[i][col]])]
         IN  IF \E col \in DOMAIN columns : \E i \in 1..Len(rows) : IsRaise(columns[col][i])
             THEN Raise("ValueError")
             ELSE Returned([i \in 1..Len(rows) |->
                               [col \in DOMAIN rows[1] |-> columns[col][i]]])

-----------------------------------------------------------------------------
(* Join engine: load_contact_list_data and perform_left_join                *)

RECURSIVE contact_loop(_, _, _)
contact_loop(rows, i, contact_data_acc) ==
    IF i > Len(rows) THEN contact_data_acc
    ELSE LET random_id == Strip(rows[i].RANDOM_ID) IN
         IF random_id = <<>> THEN contact_loop(rows, i + 1, contact_data_acc)
         ELSE contact_loop(rows, i + 1,
                  DictSet(contact_data_acc, random_id,
                          [Condition |-> rows[i].Condition,
                           Platforms |-> rows[i].Platforms,
                           phoneType |-> rows[i].phoneType,
                           EnrollmentDate |-> rows[i].EnrollmentDate]))

load_contact_list_data(file) ==
    IF ~Exists(file) THEN EmptyDict ELSE contact_loop(file.rows, 1, EmptyDict)

\* isinstance(v, (int, float))
IsNumber(v) == IsInt(v) \/ IsFloat(v) \/ IsNaN(v)

\* the submission_id of a row as the join and the statistics compare it
canonical_submission_id(submission_id_raw) ==
    IF IsNumber(submission_id_raw) THEN PyStr(submission_id_raw)
    ELSE Strip(PyStr(submission_id_raw))

\* submission_mapping.get(submission_id, '')
lookup_random_id(mapping, submission_id) ==
    IF submission_id \in DOMAIN mapping THEN mapping[submission_id] ELSE <<>>

contact_fields(contacts, random_id) ==
    IF random_id \in DOMAIN contacts
    THEN [Condition |-> Str(contacts[random_id].Condition),
          Platforms |-> Str(contacts[random_id].Platforms),
          phoneType |-> Str(contacts[random_id].phoneType),
          EnrollmentDate |-> Str(contacts[random_id].EnrollmentDate)]
    ELSE [Condition |-> Str(<<>>), Platforms |-> Str(<<>>), phoneType |-> Str(<<>>),
          EnrollmentDate |-> Str(<<>>)]

\* the join that keeps the rows without a RANDOM_ID too
RECURSIVE left_join_loop_keep_all(_, _, _, _, _)
left_join_loop_keep_all(aw_data, i, mapping, contacts, joined_data) ==
    IF i > Len(aw_data) THEN joined_data
    ELSE LET random_id == lookup_random_id(mapping,
                              canonical_submission_id(aw_data[i].submission_id))
         IN  left_join_loop_keep_all(aw_data, i + 1, mapping, contacts,
                 Append(joined_data,
                        ([RANDOM_ID |-> Str(random_id)] @@ contact_fields(contacts, random_id))
                        @@ aw_data[i]))

RECURSIVE left_join_loop(_, _, _, _, _)
left_join_loop(aw_data, i, mapping, contacts, joined_data) ==
    IF i > Len(aw_data) THEN joined_data
    ELSE LET random_id == lookup_random_id(mapping,
                              canonical_submission_id(aw_data[i].submission_id))
         IN  IF random_id # <<>>
             THEN left_join_loop(aw_data, i + 1, mapping, contacts,
                      Append(joined_data,
                             ([RANDOM_ID |-> Str(random_id)]
                              @@ contact_fields(contacts, random_id))
                             @@ aw_data[i]))
             ELSE left_join_loop(aw_data, i + 1, mapping, contacts, joined_data)

perform_left_join_keep_all(aw_data, mapping, contacts) ==
    left_join_loop_keep_all(aw_data, 1, mapping, contacts, <<>>)

\* the join that keeps only the rows whose RANDOM_ID has a contact row
perform_left_join_inner(aw_data, mapping, contacts) ==
    SelectSeq(left_join_loop(aw_data, 1, mapping, contacts, <<>>),
              LAMBDA joined_row : joined_row.RANDOM_ID.str \in DOMAIN contacts)

perform_left_join(aw_data, mapping, contacts) ==
    left_join_loop(aw_data, 1, mapping, contacts, <<>>)

-----------------------------------------------------------------------------
(* Participant aggregator: hash_data_content and generate_participant_report *)

\* "|".join(sorted(content_parts)) of a record with all four relevant fields.
\* Each part starts with its field name, so sorted() orders the parts by field
\* name: App, Duration (min), platform, session_datetime.  The field names
\* are kept as single tokens.  md5 is taken as injective, so the content
\* string stands for its hash.
hash_data_content(record) ==
    <<"App:">> \o PyStr(record.App) \o <<"|", "Duration (min):">>
    \o PyStr(record.Duration_min) \o <<"|", "platform:">> \o PyStr(record.platform)
    \o <<"|", "session_datetime:">> \o PyStr(record.session_datetime)

\* the content hash of a screen unlock record: platform and session_datetime
hash_unlock_content(record) ==
    <<"platform:">> \o PyStr(record.platform)
    \o <<"|", "session_datetime:">> \o PyStr(record.session_datetime)

\* bool(value) of a submission_id
Truthy(v) ==
    CASE IsStr(v) -> v.str # <<>>
      [] IsInt(v) -> v.int # 0
      [] IsFloat(v) -> ~(v.float = 0 /\ v.frac = <<>>)
      [] OTHER -> TRUE

new_participant_stats(data_type) ==
    [submission_ids |-> {}, unique_content_hashes |-> {}, study_days |-> {},
     total_donations |-> 0, data_type |-> data_type]

\* calculate_study_day when the EnrollmentDate parsed, else no study day
study_day_if_enrolled(session_datetime_arg, enrollment_date_parsed) ==
    IF IsNone(enrollment_date_parsed) THEN None
    ELSE calculate_study_day(session_datetime_arg, enrollment_date_parsed)

\* the study day of one record: Day(n), None, or Raise
record_study_day(record) ==
    IF record.EnrollmentDate.str = <<>> THEN None
    ELSE study_day_if_enrolled(record.session_datetime,
                               parse_enrollment_date(record.EnrollmentDate.str))

\* the stats of one participant after one more record
add_record(stats, record, content_hash, day) ==
    [stats EXCEPT
        !.submission_ids = IF Truthy(record.submission_id)
                           THEN @ \cup {PyStr(record.submission_id)} ELSE @,
        !.unique_content_hashes = @ \cup {content_hash},
        !.total_donations = @ + 1,
        !.study_days = IF IsDay(day) /\ day.day # 0 THEN @ \cup {day.day} ELSE @]

\* participant_stats[random_id] as an app usage record finds or creates it
stats_for_app(participant_stats, random_id) ==
    IF random_id \in DOMAIN participant_stats THEN participant_stats[random_id]
    ELSE new_participant_stats("app_usage")

\* the lookup of a screen unlock record that leaves the data_type as it is
stats_for_unlock_keep_type(participant_stats, random_id) ==
    IF random_id \in DOMAIN participant_stats THEN participant_stats[random_id]
    ELSE new_participant_stats("screen_unlocks")

\* participant_stats[random_id] as a screen unlock record finds or creates it
stats_for_unlock(participant_stats, random_id) ==
    IF random_id \in DOMAIN participant_stats
    THEN [participant_stats[random_id] EXCEPT
             !.data_type = IF @ = "app_usage" THEN "mixed" ELSE @]
    ELSE new_participant_stats("screen_unlocks")

\* one pass of the app usage loop: the stats with the record added, or the
\* exception of the study-day mapping
report_app_step(participant_stats, record, day) ==
    IF IsRaise(day) THEN day
    ELSE Returned(DictSet(participant_stats, record.RANDOM_ID.str,
                          add_record(stats_for_app(participant_stats, record.RANDOM_ID.str),
                                     record, hash_data_content(record), day)))

report_unlock_step(participant_stats, record, day) ==
    IF IsRaise(day) THEN day
    ELSE Returned(DictSet(participant_stats, record.RANDOM_ID.str,
                          add_record(stats_for_unlock(participant_stats,
                                                      record.RANDOM_ID.str),
                                     record, hash_unlock_content(record), day)))

RECURSIVE report_app_loop(_, _, _)
report_app_next(records, i, step) ==
    IF IsRaise(step) THEN step ELSE report_app_loop(records, i + 1, step.returned)

report_app_loop(records, i, participant_stats) ==
    IF i > Len(records) THEN Returned(participant_stats)
    ELSE IF records[i].RANDOM_ID.str = <<>>
         THEN report_app_next(records, i, Returned(participant_stats))
         ELSE report_app_next(records, i,
                  report_app_step(participant_stats, records[i],
                                  record_study_day(records[i])))

RECURSIVE report_unlock_loop(_, _, _)
report_unlock_next(records, i, step) ==
    IF IsRaise(step) THEN step ELSE report_unlock_loop(records, i + 1, step.returned)

report_unlock_loop(records, i, participant_stats) ==
    IF i > Len(records) THEN Returned(participant_stats)
    ELSE IF records[i].RANDOM_ID.str = <<>>
         THEN report_unlock_next(records, i, Returned(participant_stats))
         ELSE report_unlock_next(records, i,
                  report_unlock_step(participant_stats, records[i],
                                     record_study_day(records[i])))

\* contact_data.get(random_id, {}).get(field, '') for the four contact fields
report_contact_info(contacts, random_id) ==
    IF random_id \in DOMAIN contacts THEN contacts[random_id]
    ELSE [Condition |-> <<>>, Platforms |-> <<>>, phoneType |-> <<>>,
          EnrollmentDate |-> <<>>]

\* one row of the report; uniqueness_ratio is kept as the pair
\* <<numerator, denominator>>
report_record(contacts, random_id, stats) ==
    [RANDOM_ID |-> random_id,
     contact_info |-> report_contact_info(contacts, random_id),
     data_type |-> stats.data_type,
     num_submission_ids |-> Cardinality(stats.submission_ids),
     num_unique_donations |-> Cardinality(stats.unique_content_hashes),
     total_donation_records |-> stats.total_donations,
     uniqueness_ratio |-> IF stats.total_donations > 0
                          THEN <<Cardinality(stats.unique_content_hashes),
                                 stats.total_donations>>
                          ELSE <<0, 1>>,
     study_days_with_data |-> stats.study_days,
     num_study_days_with_data |-> Cardinality(stats.study_days),
     submission_ids_list |-> stats.submission_ids]

\* the keys of a dict as the list sorted() makes of them
RECURSIVE SortedKeys(_)
SortedKeys(keys) ==
    IF keys = {} THEN <<>>
    ELSE LET least == CHOOSE k \in keys : \A other \in keys \ {k} : StrLess(k, other)
         IN  <<least>> \o SortedKeys(keys \ {least})

\* the report rows sorted by RANDOM_ID
report_of_stats(participant_stats, contacts) ==
    LET ids == SortedKeys(DOMAIN participant_stats) IN
    [i \in 1..Len(ids) |-> report_record(contacts, ids[i], participant_stats[ids[i]])]

report_after_unlocks(after_unlocks, contacts) ==
    IF IsRaise(after_unlocks) THEN after_unlocks
    ELSE Returned(report_of_stats(after_unlocks.returned, contacts))

report_after_app(after_app, unlock_records, contacts) ==
    IF IsRaise(after_app) THEN after_app
    ELSE report_after_unlocks(report_unlock_loop(unlock_records, 1, after_app.returned),
                              contacts)

generate_participant_report(app_records, unlock_records, contacts) ==
    report_after_app(report_app_loop(app_records, 1, EmptyDict), unlock_records, contacts)

\* the non-empty canonical submission ids of the loaded usage data
all_submission_ids_in_data(app_data, unlock_data) ==
    ({canonical_submission_id(app_data[i].submission_id) : i \in 1..Len(app_data)}
     \cup {canonical_submission_id(unlock_data[i].submission_id) :
               i \in 1..Len(unlock_data)})
    \ {<<>>}

unmapped_ids(app_data, unlock_data, mapping) ==
    (all_submission_ids_in_data(app_data, unlock_data)) \ DOMAIN mapping

-----------------------------------------------------------------------------
(* Usage decoder: parse_json_uploads.py and parse_supabase_data              *)

\* a parsed JSON value: an object (a function from its keys to values), a
\* list, or a str / int scalar; Malformed is a blob json.loads rejects
JsonObject(members) == [object |-> members]
JsonList(elements) == [list |-> elements]
Malformed == [malformed |-> TRUE]
IsObject(v) == DOMAIN v = {"object"}
IsList(v) == DOMAIN v = {"list"}
IsMalformed(v) == DOMAIN v = {"malformed"}

\* result[key] = value for every member of item whose value is a non-empty list
parse_item(result, item) ==
    LET kept == {key \in DOMAIN item : IsList(item[key]) /\ item[key].list # <<>>} IN
    [key \in DOMAIN result \cup kept |->
        IF key \in kept THEN item[key].list ELSE result[key]]

\* for item in data: for key, value in item.items(): ...
RECURSIVE parse_items(_, _, _)
parse_items(items, i, result) ==
    IF i > Len(items) THEN Returned(result)
    ELSE IF ~IsObject(items[i]) THEN Raise("AttributeError")
    ELSE parse_items(items, i + 1, parse_item(result, items[i].object))

\* parse_json_data(json_str): Returned(the dict of the lists by key); the
\* JSONDecodeError of a malformed blob is caught and gives {}, any other
\* exception leaves the function
parse_json_data(json_data) ==
    IF IsMalformed(json_data) THEN Returned(EmptyDict)
    ELSE IF IsObject(json_data) THEN Raise("AttributeError")
    ELSE IF ~IsList(json_data) THEN Raise("TypeError")
    ELSE parse_items(json_data.list, 1, EmptyDict)

\* the two platform names
Android == <<"A", "n", "d", "r", "o", "i", "d">>
Other == <<"O", "t", "h", "e", "r">>

UpperCase == <<"A", "B", "C", "D", "E", "F", "G", "H", "I", "J", "K", "L", "M",
               "N", "O", "P", "Q", "R", "S", "T", "U", "V", "W", "X", "Y", "Z">>
LowerCase == <<"a", "b", "c", "d", "e", "f", "g", "h", "i", "j", "k", "l", "m",
               "n", "o", "p", "q", "r", "s", "t", "u", "v", "w", "x", "y", "z">>

LowerChar(c) ==
    IF \E i \in 1..26 : UpperCase[i] = c
    THEN LowerCase[CHOOSE i \in 1..26 : UpperCase[i] = c]
    ELSE c

\* s.lower()
Lower(s) == [i \in 1..Len(s) |-> LowerChar(s[i])]

\* sub in s
Contains(s, sub) ==
    \E i \in 1..(Len(s) - Len(sub) + 1) : SubSeq(s, i, i + Len(sub) - 1) = sub

\* str(bucket_info): the text of the list, of which the search reads the
\* members' values
RECURSIVE bucket_str(_)
bucket_str(bucket_info) ==
    IF bucket_info = <<>> THEN <<>>
    ELSE <<"{">> \o (IF IsObject(Head(bucket_info)) /\ "id" \in DOMAIN Head(bucket_info).object
                     THEN PyStr(Head(bucket_info).object.id)
                     ELSE <<>>)
         \o <<"}">> \o bucket_str(Tail(bucket_info))

detect_platform_from_bucket_info(bucket_info) ==
    IF bucket_info = <<>> THEN Other
    ELSE IF \/ Contains(Lower(bucket_str(bucket_info)),
                        <<"a", "n", "d", "r", "o", "i", "d">>)
            \/ Contains(Lower(bucket_str(bucket_info)), <<"c", "o", "m", ".">>)
         THEN Android
         ELSE Other

\* time_str.count(':')
RECURSIVE CountColons(_)
CountColons(s) ==
    IF s = <<>> THEN 0
    ELSE (IF Head(s) = ":" THEN 1 ELSE 0) + CountColons(Tail(s))

\* dt.strftime("%Y-%m-%d %H:%M:%S") of a parsed datetime, "" when parsing
\* raised
strftime_or_empty(dt) ==
    IF IsNone(dt) THEN <<>> ELSE FormatDateTime(dt.dt[1], dt.dt[2])

\* date_parser.parse on the texts the decoder meets here: an ISO date and
\* time parse, a text without a date raises (None)
date_parser_parse(datetime_str) == FromIsoFormat(datetime_str)

\* create_session_datetime_string(date_str, time_str): every exception,
\* the one of a non-str time included, gives ""
create_session_datetime_string(date_str, time_str) ==
    IF ~(Truthy(date_str) /\ Truthy(time_str)) THEN <<>>
    ELSE IF ~IsStr(time_str) THEN <<>>
    ELSE strftime_or_empty(
             date_parser_parse(
                 PyStr(date_str) \o <<" ">> \o time_str.str
                 \o (IF CountColons(time_str.str) = 1 THEN <<":", "0", "0">> ELSE <<>>)))

create_created_at_datetime_string(created_at_str) ==
    IF created_at_str = <<>> THEN <<>>
    ELSE strftime_or_empty(date_parser_parse(created_at_str))

\* record.get(field, '')
entry_get(entry, field) ==
    IF field \in DOMAIN entry THEN entry[field] ELSE Str(<<>>)

\* create_screen_unlocks_record and screen_unlock['platform'] = platform
create_screen_unlocks_record(row, unlock_record, platform) ==
    [session_datetime |->
         Str(create_session_datetime_string(entry_get(unlock_record, "Date"),
                                            entry_get(unlock_record, "Time"))),
     submission_id |-> Str(row.submission_id),
     created_at_datetime |-> Str(create_created_at_datetime_string(row.created_at)),
     platform |-> Str(platform)]

\* create_app_usage_record and app_usage['platform'] = platform
create_app_usage_record(row, app_record, platform) ==
    [session_datetime |->
         Str(create_session_datetime_string(entry_get(app_record, "Date"),
                                            entry_get(app_record, "Time"))),
     App |-> entry_get(app_record, "App"),
     Duration_min |-> entry_get(app_record, "Duration_min"),
     submission_id |-> Str(row.submission_id),
     created_at_datetime |-> Str(create_created_at_datetime_string(row.created_at)),
     platform |-> Str(platform)]

\* the loop over the ScreenUnlocks entries of one row: the records so far,
\* and whether an entry that is no object raised
RECURSIVE unlock_records_loop(_, _, _, _, _)
unlock_records_loop(row, platform, entries, i, records) ==
    IF i > Len(entries) THEN [records |-> records, raised |-> FALSE]
    ELSE IF ~IsObject(entries[i]) THEN [records |-> records, raised |-> TRUE]
    ELSE unlock_records_loop(row, platform, entries, i + 1,
             Append(records,
                    create_screen_unlocks_record(row, entries[i].object, platform)))

RECURSIVE app_records_loop(_, _, _, _, _)
app_records_loop(row, platform, entries, i, records) ==
    IF i > Len(entries) THEN [records |-> records, raised |-> FALSE]
    ELSE IF ~IsObject(entries[i]) THEN [records |-> records, raised |-> TRUE]
    ELSE app_records_loop(row, platform, entries, i + 1,
             Append(records, create_app_usage_record(row, entries[i].object, platform)))

\* json_data[key] when the key is there, else no entries
entries_of(json_dict, key) ==
    IF key \in DOMAIN json_dict THEN json_dict[key] ELSE <<>>

\* the platform of one row: 'Other' unless BucketInfo names Android
platform_of(json_dict) ==
    IF "BucketInfo" \in DOMAIN json_dict
    THEN detect_platform_from_bucket_info(json_dict.BucketInfo)
    ELSE Other

\* the end of the row's try block: processed_count += 1, or error_count += 1
\* in the except branch; the records appended before the exception stay
after_app_records(counts, apps) ==
    IF apps.raised
    THEN [counts EXCEPT !.app_usage_records = apps.records, !.error_count = @ + 1]
    ELSE [counts EXCEPT !.app_usage_records = apps.records, !.processed_count = @ + 1]

after_unlock_records(counts, row, json_dict, platform, unlocks) ==
    IF unlocks.raised
    THEN [counts EXCEPT !.screen_unlocks_records = unlocks.records,
                        !.error_count = @ + 1]
    ELSE after_app_records(
             [counts EXCEPT !.screen_unlocks_records = unlocks.records],
             app_records_loop(row, platform, entries_of(json_dict, "AppUsage"), 1,
                              counts.app_usage_records))

with_platform(counts, row, json_dict, platform) ==
    after_unlock_records(
        [counts EXCEPT !.platform_counts[platform] = @ + 1],
        row, json_dict, platform,
        unlock_records_loop(row, platform, entries_of(json_dict, "ScreenUnlocks"), 1,
                            counts.screen_unlocks_records))

\* one pass of the row loop of parse_supabase_data
decode_row(counts, row, parsed) ==
    IF IsRaise(parsed) THEN [counts EXCEPT !.error_count = @ + 1]
    ELSE with_platform(counts, row, parsed.returned, platform_of(parsed.returned))

RECURSIVE decode_rows(_, _, _)
decode_rows(rows, i, counts) ==
    IF i > Len(rows) THEN counts
    ELSE decode_rows(rows, i + 1,
                     decode_row(counts, rows[i], parse_json_data(rows[i].json_data)))

\* the collections and counters of parse_supabase_data after its row loop
parse_supabase_data(rows) ==
    decode_rows(rows, 1,
        [screen_unlocks_records |-> <<>>, app_usage_records |-> <<>>,
         processed_count |-> 0, error_count |-> 0,
         platform_counts |-> [platform \in {Android, Other} |-> 0]])

\* csv.DictWriter: every value as its str()
csv_row(record) == [field \in DOMAIN record |-> PyStr(record[field])]

\* write_csv_file: the file, written only when there are records
write_csv_file(records) ==
    IF records = <<>> THEN NoFile
    ELSE File([i \in 1..Len(records) |-> csv_row(records[i])])

-----------------------------------------------------------------------------
(* Inputs of the deduplicator harness *)

P001 == <<"P", "1">>
P002 == <<"P", "2">>

Mar01 == <<2025, 3, 1>>
Mar02 == <<2025, 3, 2>>
TenAM == <<10, 0, 0>>

JoinedApp(rid, sdt, app, dur, plat, sid) ==
    [RANDOM_ID |-> Str(rid), session_datetime |-> sdt, App |-> Str(app),
     Duration_min |-> dur, platform |-> Str(plat), submission_id |-> sid]

JoinedUnlock(rid, sdt, plat, sid) ==
    [RANDOM_ID |-> Str(rid), session_datetime |-> sdt, platform |-> Str(plat),
     submission_id |-> sid]

\* joined app-usage records: equal fingerprints with different non-key
\* fields, and fingerprints that differ in exactly one key field
DedupAppPool ==
    { JoinedApp(P001, Timestamp(Mar01, TenAM), <<"a">>, PyInt(5), Android, PyInt(1)),
      JoinedApp(P001, Timestamp(Mar01, TenAM), <<"a">>, PyInt(5), Android, PyInt(2)),
      JoinedApp(P001, Timestamp(Mar01, TenAM), <<"a", " ">>, PyInt(5), Android, PyInt(3)),
      JoinedApp(P002, Timestamp(Mar01, TenAM), <<"a">>, PyInt(5), Android, PyInt(1)),
      JoinedApp(P001, Timestamp(Mar02, TenAM), <<"a">>, PyInt(5), Android, PyInt(1)),
      JoinedApp(P001, Timestamp(Mar01, TenAM), <<"b">>, PyInt(5), Android, PyInt(1)),
      JoinedApp(P001, Timestamp(Mar01, TenAM), <<"a">>, PyInt(6), Android, PyInt(1)),
      JoinedApp(P001, Timestamp(Mar01, TenAM), <<"a">>, PyInt(5), Other, PyInt(1)),
      JoinedApp(P001, NaT, <<"a">>, PyInt(5), Android, PyInt(1)) }

DedupUnlockPool ==
    { JoinedUnlock(P001, Timestamp(Mar01, TenAM), Android, PyInt(1)),
      JoinedUnlock(P001, Timestamp(Mar01, TenAM), Android, PyInt(2)),
      JoinedUnlock(P002, Timestamp(Mar01, TenAM), Android, PyInt(1)),
      JoinedUnlock(P001, Timestamp(Mar02, TenAM), Android, PyInt(1)),
      JoinedUnlock(P001, Timestamp(Mar01, TenAM), Other, PyInt(1)),
      JoinedUnlock(P001, NaT, Android, PyInt(1)) }

-----------------------------------------------------------------------------
(* Identity resolver: load_diary_unique_tuples, load_exit_survey_data and   *)
(* the merge of the two maps in main                                        *)

\* the three androidSubmissionID fields of a survey row, stripped
stripped_ids(row) ==
    <<Strip(row.androidSubmissionID1), Strip(row.androidSubmissionID2),
      Strip(row.androidSubmissionID3)>>

\* the loop that leaves an ID that has a RANDOM_ID as it is
RECURSIVE map_ids_keep_first(_, _, _)
map_ids_keep_first(submission_to_random_id, ids, random_id) ==
    IF ids = <<>> THEN submission_to_random_id
    ELSE map_ids_keep_first(
             IF Head(ids) \in DOMAIN submission_to_random_id THEN submission_to_random_id
             ELSE DictSet(submission_to_random_id, Head(ids), random_id),
             Tail(ids), random_id)

\* for aid in ids: submission_to_random_id[aid] = random_id
RECURSIVE map_ids(_, _, _)
map_ids(submission_to_random_id, ids, random_id) ==
    IF ids = <<>> THEN submission_to_random_id
    ELSE map_ids(DictSet(submission_to_random_id, Head(ids), random_id),
                 Tail(ids), random_id)

\* the tuple of the IDs in the order the row lists them
tuple_key_unsorted(android_ids) == android_ids

\* tuple(sorted(android_ids))
tuple_key(android_ids) == Sorted(android_ids)

RECURSIVE diary_loop(_, _, _, _)
diary_loop(rows, i, submission_to_random_id, seen_tuples) ==
    IF i > Len(rows) THEN submission_to_random_id
    ELSE LET random_id == Strip(rows[i].RANDOM_ID)
             android_ids == NonEmpty(stripped_ids(rows[i]))
         IN  IF android_ids = <<>> \/ random_id = <<>>
             THEN diary_loop(rows, i + 1, submission_to_random_id, seen_tuples)
             ELSE IF tuple_key(android_ids) \in seen_tuples
             THEN diary_loop(rows, i + 1, submission_to_random_id, seen_tuples)
             ELSE diary_loop(rows, i + 1,
                             map_ids(submission_to_random_id, android_ids, random_id),
                             seen_tuples \cup {tuple_key(android_ids)})

load_diary_unique_tuples(rows) == diary_loop(rows, 1, EmptyDict, {})

RECURSIVE exit_loop(_, _, _)
exit_loop(rows, i, submission_to_random_id) ==
    IF i > Len(rows) THEN submission_to_random_id
    ELSE LET random_id == Strip(rows[i].RANDOM_ID) IN
         IF random_id = <<>>
         THEN exit_loop(rows, i + 1, submission_to_random_id)
         ELSE exit_loop(rows, i + 1,
                        map_ids(submission_to_random_id,
                                NonEmpty(stripped_ids(rows[i])), random_id))

load_exit_survey_data(file) ==
    IF ~Exists(file) THEN EmptyDict ELSE exit_loop(file.rows, 1, EmptyDict)

\* the merge with the diary layered on top of the exit survey
combine_mappings_diary_wins(diary, exit) == DictUpdate(exit, diary)

\* submission_mapping = diary.copy(); submission_mapping.update(exit)
combine_mappings(diary, exit) == DictUpdate(diary, exit)

-----------------------------------------------------------------------------
(* Inputs of the identity resolver *)

SurveyRow(id1, id2, id3, rid) ==
    [androidSubmissionID1 |-> id1, androidSubmissionID2 |-> id2,
     androidSubmissionID3 |-> id3, RANDOM_ID |-> rid]

P003 == <<"P", "3">>

\* diary rows: the same IDs in another order under another RANDOM_ID, an
\* overlapping tuple, the same set with an ID listed twice, no RANDOM_ID, no ID
DiaryPool ==
    { SurveyRow(<<"1">>, <<"2">>, <<>>, P001),
      SurveyRow(<<"2">>, <<"1">>, <<>>, P002),
      SurveyRow(<<" ", "1">>, <<>>, <<"3">>, P002),
      SurveyRow(<<"1">>, <<"1">>, <<"2">>, P003),
      SurveyRow(<<"1">>, <<"2">>, <<>>, <<" ">>),
      SurveyRow(<<>>, <<" ">>, <<>>, P001) }

ExitPool ==
    { SurveyRow(<<"1">>, <<>>, <<"4">>, P003),
      SurveyRow(<<>>, <<"2", " ">>, <<>>, P001),
      SurveyRow(<<"3">>, <<>>, <<>>, <<>>) }

-----------------------------------------------------------------------------
(* Inputs of the study-calendar harness *)

NextDay(d) ==
    IF d[3] < DaysInMonth(d[1], d[2]) THEN <<d[1], d[2], d[3] + 1>>
    ELSE IF d[2] < 12 THEN <<d[1], d[2] + 1, 1>>
    ELSE <<d[1] + 1, 1, 1>>

RECURSIVE AddDays(_, _)
AddDays(d, k) == IF k = 0 THEN d ELSE AddDays(NextDay(d), k - 1)

\* the ends of 2024, a February of a leap year and one of a common year
BaseDates == {<<2024, 12, 30>>, <<2024, 2, 10>>, <<2025, 2, 10>>}

TimesOfDay == {<<0, 0, 0>>, <<23, 59, 59>>}

\* "%Y-%m-%d"
FormatYmd(d) == Pad4(d[1]) \o <<"-">> \o Pad2(d[2]) \o <<"-">> \o Pad2(d[3])
\* "%m/%d/%Y"
FormatMdy(d) == Pad2(d[2]) \o <<"/">> \o Pad2(d[3]) \o <<"/">> \o Pad4(d[1])

\* a session value that holds the date d at time t
SessionForms(d, t) == {Timestamp(d, t), Str(FormatDateTime(d, t))}

\* an EnrollmentDate cell that holds the date d
EnrollmentForms(d) ==
    {FormatYmd(d), FormatMdy(d), FormatDateTime(d, <<9, 30, 0>>), <<" ">> \o FormatYmd(d)}

\* "%d/%m/%Y"
FormatDmy(d) == Pad2(d[3]) \o <<"/">> \o Pad2(d[2]) \o <<"/">> \o Pad4(d[1])

\* " %H:%M:%S"
FormatHms(t) == <<" ">> \o Pad2(t[1]) \o <<":">> \o Pad2(t[2]) \o <<":">> \o Pad2(t[3])

\* the layouts of an EnrollmentDate cell: the order of the date fields, alone
\* or followed by a time of day
EnrollmentLayouts == {"ymd", "mdy", "dmy", "ymd_time", "mdy_time", "dmy_time"}

HasTime(layout) == layout \in {"ymd_time", "mdy_time", "dmy_time"}

\* the date d, and the time t where the layout has one, written in a layout
Written(layout, d, t) ==
    (CASE layout \in {"ymd", "ymd_time"} -> FormatYmd(d)
       [] layout \in {"mdy", "mdy_time"} -> FormatMdy(d)
       [] layout \in {"dmy", "dmy_time"} -> FormatDmy(d))
    \o (IF HasTime(layout) THEN FormatHms(t) ELSE <<>>)

EnrollmentTimes == {<<9, 30, 0>>, <<23, 59, 59>>}

\* session values and EnrollmentDate cells that hold no date
MalformedSessions == {NaT, Str(<<>>), Str(<<"x", "x">>), NaN}
MalformedEnrollments == {<<>>, <<"a", "b", "c">>, <<"2", "0", "2", "5", "-", "1", "3", "-", "0", "1">>}

-----------------------------------------------------------------------------
(* Inputs of the join: the decoded usage files, the survey and contact files *)

T1 == FormatDateTime(Mar01, TenAM)
T2 == FormatDateTime(Mar02, TenAM)
Created == FormatDateTime(<<2025, 3, 3>>, <<8, 0, 0>>)

\* a row of aw_app_usage.csv, cell by cell
AwApp(sdt, app, dur, sid, plat) ==
    [session_datetime |-> sdt, App |-> app, Duration_min |-> dur,
     submission_id |-> sid, created_at_datetime |-> Created, platform |-> plat]

\* a row of aw_screen_unlocks.csv
AwUnlock(sdt, sid, plat) ==
    [session_datetime |-> sdt, submission_id |-> sid,
     created_at_datetime |-> Created, platform |-> plat]

\* a row of the contact list
ContactRow(rid, enrollment) ==
    [RANDOM_ID |-> rid, Condition |-> <<"c">>, Platforms |-> Android,
     phoneType |-> <<"p">>, EnrollmentDate |-> enrollment]

\* usage rows: one entry, the same entry under a second submission, an entry
\* without a session time, rows without a submission id, with blanks around
\* it, with an unknown one and with a non-numeric one
AwAppPool ==
    { AwApp(T1, <<"a">>, <<"5">>, <<"1">>, Android),
      AwApp(T1, <<"a">>, <<"5">>, <<"2">>, Android),
      AwApp(<<>>, <<"a">>, <<"5">>, <<"1">>, Android),
      AwApp(T2, <<"b">>, <<"6">>, <<>>, Android),
      AwApp(T1, <<"a">>, <<"5">>, <<" ", "1", " ">>, Other),
      AwApp(T2, <<"a">>, <<"5">>, <<"7">>, Android),
      AwApp(T2, <<"a">>, <<"5">>, <<"x", "9", " ">>, Android),
      AwApp(T2, <<"a">>, <<"5">>, <<" ">>, Android) }

AwUnlockFiles ==
    { NoFile,
      File(<<AwUnlock(T1, <<"1">>, Android), AwUnlock(T2, <<"7">>, Android)>>) }

JoinDiaryFiles ==
    { File(<<SurveyRow(<<"1">>, <<"2">>, <<>>, P001)>>),
      File(<<SurveyRow(<<"1">>, <<"2">>, <<>>, P001),
             SurveyRow(<<"x", "9">>, <<>>, <<>>, P002)>>) }

ContactFiles ==
    { NoFile,
      File(<<ContactRow(P001, FormatYmd(Mar01))>>),
      File(<<ContactRow(P001, <<"a", "b", "c">>), ContactRow(P002, FormatYmd(Mar01))>>) }

-----------------------------------------------------------------------------
(* Inputs of the decoder: rows of the raw uploads file                      *)

Ymd0301 == Str(FormatYmd(Mar01))
HHMM == Str(<<"1", "0", ":", "0", "0">>)
HHMMSS == Str(<<"1", "1", ":", "3", "0", ":", "1", "5">>)

AppEntry(date, time, app, dur) ==
    JsonObject([Date |-> date, Time |-> time, App |-> Str(app), Duration_min |-> dur])

UnlockEntry(date, time) == JsonObject([Date |-> date, Time |-> time])

\* a single-key object of the payload
Item(key, elements) == JsonObject([k \in {key} |-> JsonList(elements)])

AndroidBucket == Item("BucketInfo", <<JsonObject([id |-> Str(Android)])>>)

Entry1 == AppEntry(Ymd0301, HHMM, <<"a">>, PyInt(5))
Entry2 == AppEntry(Ymd0301, HHMMSS, <<"b">>, PyInt(6))
EntryNoDate == AppEntry(Str(<<"x", "x">>), HHMM, <<"a">>, PyInt(5))
Unlock1 == UnlockEntry(Ymd0301, HHMM)

UploadRow(sid, created, payload) ==
    [submission_id |-> sid, created_at |-> created, json_data |-> payload]

\* upload rows: an entry, the same entry retransmitted under the second
\* submission of the participant, the screen unlocks of an unknown
\* submission, a payload with AppUsage in two list elements, a malformed blob,
\* an entry whose date is no date
UploadPool ==
    { UploadRow(<<"1">>, Created,
                JsonList(<<AndroidBucket, Item("AppUsage", <<Entry1>>)>>)),
      UploadRow(<<"2">>, T2,
                JsonList(<<AndroidBucket, Item("AppUsage", <<Entry1>>)>>)),
      UploadRow(<<"7">>, Created, JsonList(<<Item("ScreenUnlocks", <<Unlock1>>)>>)),
      UploadRow(<<"1">>, Created,
                JsonList(<<Item("AppUsage", <<Entry1>>), Item("AppUsage", <<Entry2>>),
                           Item("ScreenUnlocks", <<Unlock1>>)>>)),
      UploadRow(<<"1">>, Created, Malformed),
      UploadRow(<<"2">>, Created,
                JsonList(<<Item("AppUsage", <<EntryNoDate>>),
                           Item("ScreenUnlocks", <<Unlock1>>)>>)) }

MainDiaryFile == File(<<SurveyRow(<<"1">>, <<"2">>, <<>>, P001)>>)
MainContactFile == File(<<ContactRow(P001, FormatYmd(Mar01))>>)

\* the end-to-end scenario: one upload of submission 42 with one AppUsage
\* entry, the diary row of participant P001 naming 42 as the first Android
\* submission, the contact row of P001 enrolled on 2025-03-01
ScenarioRandomId == <<"P", "0", "0", "1">>
Instagram == <<"I", "n", "s", "t", "a", "g", "r", "a", "m">>
ScenarioUpload ==
    UploadRow(<<"4", "2">>, Created,
              JsonList(<<Item("AppUsage", <<AppEntry(Ymd0301, HHMM, Instagram, PyInt(15))>>)>>))
ScenarioUnlocksUpload ==
    UploadRow(<<"7">>, Created, JsonList(<<Item("ScreenUnlocks", <<Unlock1>>)>>))
ScenarioDiaryFile == File(<<SurveyRow(<<"4", "2">>, <<>>, <<>>, ScenarioRandomId)>>)
ScenarioContactFile == File(<<ContactRow(ScenarioRandomId, FormatYmd(Mar01))>>)

\* the files main starts from: uploads over the pool with the diary and the
\* contact list of P1, or the scenario's files, alone and next to the screen
\* unlocks of an unknown submission
MainInputs ==
    { <<File(r), MainDiaryFile, MainContactFile>> : r \in SeqUpTo(UploadPool, MaxUploads) }
    \cup { <<File(<<ScenarioUpload>>), ScenarioDiaryFile, ScenarioContactFile>>,
           <<File(<<ScenarioUpload, ScenarioUnlocksUpload>>), ScenarioDiaryFile,
             ScenarioContactFile>> }

-----------------------------------------------------------------------------
(* The data pulls of join_diary_activitywatch.main                          *)

\* the data a pull can be asked for, by the names of the debug mode
Pulls == {"ActivityWatch data", "Diary responses", "Exit survey data", "Contact list data"}

\* the command line: --skip-pull, --skip-parse, --debug
Args(skip_pull, skip_parse, debug) ==
    [skip_pull |-> skip_pull, skip_parse |-> skip_parse, debug |-> debug]
NoArgs == Args(FALSE, FALSE, FALSE)

\* files_status of a run that finds no recent file
AllOld == [description \in Pulls |-> "old"]

\* no pull has been made
NoPulls == [description \in Pulls |-> "not pulled"]

\* what the sources hold: the uploads and the diary of the scenario, the exit
\* survey that names the submission of the screen unlocks, the contact list
RemoteUploads == File(<<ScenarioUpload, ScenarioUnlocksUpload>>)
RemoteExitFile == File(<<SurveyRow(<<"7">>, <<>>, <<>>, ScenarioRandomId)>>)

\* a child process exits with code 0, exits with code 1, or never exits
Exits == {"exit_0", "exit_1"}
ExitsOrHangs == Exits \cup {"never_exits"}

\* the timeout argument of subprocess.run, None where the call passes none
Timeout(seconds) == [seconds |-> seconds]

CompletedProcess(returncode) == [returncode |-> returncode]
TimeoutExpired == Raise("TimeoutExpired")
\* the call that never returns: the child does not exit and nothing ends it
Blocked == [blocked |-> TRUE]

\* subprocess.run(cmd, timeout=timeout) on a child of this behaviour
subprocess_run(timeout, behaviour) ==
    CASE behaviour = "exit_0" -> CompletedProcess(0)
      [] behaviour = "exit_1" -> CompletedProcess(1)
      [] behaviour = "never_exits" -> IF IsNone(timeout) THEN Blocked ELSE TimeoutExpired

\* pull_supabase_data, pull_exit_survey_data and pull_contact_list_data of
\* join_diary_activitywatch.py, whose child writes the file when it exits
\* with code 0: subprocess.run(cmd) without timeout inside try
pull_without_timeout(behaviour) ==
    LET result == subprocess_run(None, behaviour) IN
    IF result = Blocked THEN Blocked
    ELSE IF IsRaise(result) THEN Returned(FALSE)
    ELSE Returned(result.returncode = 0)

\* if not args.debug or files_status.get(description) == 'old'
pull_needed(options, status, description) ==
    ~options.debug \/ status[description] = "old"

\* any_old or not args.debug
any_pull(options, status) ==
    ~options.debug \/ \E description \in Pulls : status[description] = "old"

\* where main goes after step 1: the decoding of the raw uploads, or the
\* search for the files of an earlier decoding
after_pull(options) ==
    IF options.skip_parse THEN "find_files"
    ELSE IF options.skip_pull THEN "parse_existing" ELSE "parse"

-----------------------------------------------------------------------------
(* The iOS orchestrator: join_diary_ios.py                                  *)

\* the data main pulls, in the order of files_to_check
IosPulls == <<"iOS screenshots", "Diary responses", "Contact list">>

\* the command line: --skip-pull, --skip-ocr, --debug
IosArgs(skip_pull, skip_ocr, debug) ==
    [skip_pull |-> skip_pull, skip_ocr |-> skip_ocr, debug |-> debug]

\* the timeout=... of the pull functions, in seconds
pull_timeout(description) ==
    CASE description = "iOS screenshots" -> Timeout(1800)
      [] description = "Diary responses" -> Timeout(600)
      [] description = "Contact list" -> Timeout(300)

\* pull_qualtrics_screenshots: True when the child exits with 0 and
\* diary_images/ios exists, False otherwise and at any exception
pull_qualtrics_screenshots(behaviour, dir_exists) ==
    LET result == subprocess_run(pull_timeout("iOS screenshots"), behaviour) IN
    IF IsRaise(result) THEN "False"
    ELSE IF result.returncode = 0 THEN (IF dir_exists THEN "True" ELSE "False")
    ELSE "False"

\* pull_diary_data and pull_contact_list_data: True when the child exits with
\* 0 and the file exists, None when it exits with 0 and there is no file,
\* False otherwise and at any exception
pull_file_data(description, behaviour, file_exists) ==
    LET result == subprocess_run(pull_timeout(description), behaviour) IN
    IF IsRaise(result) THEN "False"
    ELSE IF result.returncode = 0 THEN (IF file_exists THEN "True" ELSE "None")
    ELSE "False"

\* the four steps of run_ocr_analysis with their timeouts
ocr_pipeline ==
    << [cmd |-> "gemini_screenshot_analyzer.py", timeout |-> Timeout(3600)],
       [cmd |-> "participant_aggregator.py", timeout |-> Timeout(600)],
       [cmd |-> "summary_to_csv.py", timeout |-> Timeout(300)],
       [cmd |-> "app_game_classifier.py", timeout |-> Timeout(600)] >>

\* 'iOS' in platforms or 'iPhone' in phone_type
has_ios_data(platforms, phone_type) ==
    Contains(platforms, <<"i", "O", "S">>)
    \/ Contains(phone_type, <<"i", "P", "h", "o", "n", "e">>)

\* the entry of a key of diary_data that is a key of contact_data too; the
\* loop names the key random_id and the value submission_ids
participant_entry(random_id, submission_ids, contact_info) ==
    [RANDOM_ID |-> random_id,
     EnrollmentDate |-> contact_info.EnrollmentDate,
     Condition |-> contact_info.Condition,
     Platforms |-> contact_info.Platforms,
     phoneType |-> contact_info.phoneType,
     submission_ids_list |-> submission_ids,
     num_submission_ids |-> Len(submission_ids),
     has_ios_data |-> has_ios_data(contact_info.Platforms, contact_info.phoneType),
     ios_screenshots_available |-> "Unknown"]

\* for random_id, submission_ids in diary_data.items(): the entries, here in
\* the order of the keys
RECURSIVE ios_report_loop(_, _, _)
ios_report_loop(keys, diary_data, contacts) ==
    IF keys = <<>> THEN <<>>
    ELSE (IF Head(keys) \in DOMAIN contacts
          THEN <<participant_entry(Head(keys), diary_data[Head(keys)],
                                   contacts[Head(keys)])>>
          ELSE <<>>)
         \o ios_report_loop(Tail(keys), diary_data, contacts)

\* the columns write_participant_report gives its csv.DictWriter
report_fieldnames ==
    {"RANDOM_ID", "Condition", "Platforms", "phoneType", "EnrollmentDate", "data_type",
     "num_submission_ids", "num_unique_donations", "total_donation_records",
     "uniqueness_ratio", "study_days_with_data", "num_study_days_with_data",
     "submission_ids_list"}

\* write_participant_report(output_file, report_data): no file for an empty
\* report; DictWriter.writerows raises ValueError, after the header is
\* written, at a row with a key that is no column
write_participant_report(file, report_data) ==
    IF report_data = <<>> THEN Returned(file)
    ELSE IF \E r \in 1..Len(report_data) : ~(DOMAIN report_data[r] \subseteq report_fieldnames)
    THEN [raise |-> "ValueError", file |-> File(<<>>)]
    ELSE Returned(File(report_data))

\* generate_ios_participant_report(output_dir): what it returns, the report
\* it made and participant_report_ios.csv afterwards
generate_ios_participant_report(diary, contact, report_file) ==
    IF ~Exists(diary) \/ ~Exists(contact)
    THEN [success |-> "False", report |-> <<>>, file |-> report_file]
    ELSE LET diary_data == load_diary_unique_tuples(diary.rows)
             report == ios_report_loop(SortedKeys(DOMAIN diary_data), diary_data,
                                       load_contact_list_data(contact))
             written == write_participant_report(report_file, report)
         IN  IF "raise" \in DOMAIN written
             THEN [success |-> "False", report |-> report, file |-> written.file]
             ELSE [success |-> "True", report |-> report, file |-> written.returned]

\* the diary and the contact list of two participants, of whom the second
\* names as a submission the RANDOM_ID of the first
IosDiaryFiles ==
    { NoFile,
      File(<<SurveyRow(<<"4", "2">>, <<"4", "3">>, <<>>, P001)>>),
      File(<<SurveyRow(<<"4", "2">>, <<>>, <<>>, P001), SurveyRow(P001, <<>>, <<>>, P002)>>) }

IPhone == <<"i", "P", "h", "o", "n", "e">>

IosContactFiles ==
    { NoFile,
      File(<<[ContactRow(P001, FormatYmd(Mar01)) EXCEPT !.phoneType = IPhone],
             ContactRow(P002, FormatYmd(Mar02))>>) }

\* what the sources hold
RemoteIosDiaryFile == File(<<SurveyRow(<<"4", "2">>, <<"4", "3">>, <<>>, P001)>>)
RemoteIosContactFile ==
    File(<<[ContactRow(P001, FormatYmd(Mar01)) EXCEPT !.phoneType = IPhone],
           ContactRow(P002, FormatYmd(Mar02))>>)


-----------------------------------------------------------------------------
(* The reminder scheduler: twilio_scheduler.py                              *)

bot_identity == "user01"

\* lookback: int = 10, the page_size of the messages.list request
lookback == 10

\* timedelta(hours=24)
session_hours == 24

\* a message of a conversation: who wrote it, how many hours ago, and whether
\* it has a body or a content_sid
Message(author, age, form) == [author |-> author, age |-> age, form |-> form]

\* convo.messages.list(page_size=page_size, order="desc"): every message of
\* the conversation, newest first, read page_size messages a request (the
\* call passes no limit), or TwilioRestException
messages_list(messages, page_size, list_ok) ==
    IF list_ok THEN Returned(messages) ELSE Raise("TwilioRestException")

\* for msg in recent: if msg.author != bot_identity: return age < 24 hours
RECURSIVE first_user_message_recent(_, _)
first_user_message_recent(recent, i) ==
    IF i > Len(recent) THEN FALSE
    ELSE IF recent[i].author # bot_identity THEN recent[i].age < session_hours
    ELSE first_user_message_recent(recent, i + 1)

\* is_session_open(conversation_sid)
is_session_open(messages, list_ok) ==
    LET recent == messages_list(messages, lookback, list_ok) IN
    IF IsRaise(recent) THEN FALSE ELSE first_user_message_recent(recent.returned, 1)

\* send_message(...): convo.messages.create with a body when the session is
\* open and with a content_sid when it is not; TwilioRestException of the
\* request is raised again
send_message(messages, list_ok, create_ok) ==
    LET use_session == is_session_open(messages, list_ok) IN
    [use_session |-> use_session,
     created |-> IF create_ok
                 THEN <<Message(bot_identity, 0, IF use_session THEN "body" ELSE "content_sid")>>
                 ELSE <<>>,
     raised |-> ~create_ok]

NoSend == [called |-> FALSE]

\* the conversations send_message finds: the bot's messages of the last hour,
\* then nothing, or messages of the participant from 23 and from 24 hours ago
BotRun(n) == [k \in 1..n |-> Message(bot_identity, 1, "content_sid")]

UserTails ==
    { <<>>,
      <<Message("participant", 23, "body")>>,
      <<Message("participant", 24, "body")>>,
      <<Message("participant", 23, "body"), Message("participant", 24, "body")>>,
      <<Message("participant", 24, "body"), Message(bot_identity, 25, "content_sid"),
        Message("participant", 30, "body")>> }

Conversations == {BotRun(n) \o tail : n \in 0..(lookback + 1), tail \in UserTails}

-----------------------------------------------------------------------------
(* Screenshot OCR: ocr/gemini_screenshot_analyzer.py                        *)

\* a pathlib.Path of an image: its parent directory, the stem and the suffix
\* of its name
ImagePath(parent, stem, suffix) == [parent |-> parent, stem |-> stem, suffix |-> suffix]

\* an --output-dir argument; without the argument output_dir is None
OutputDir(path) == [path |-> path]

\* the file f"{image_path.stem}_analysis.json" of an image: in the output
\* directory when one is given, else next to the image
expected_output_file(image_path, output_dir) ==
    IF IsNone(output_dir)
    THEN [parent |-> image_path.parent, name |-> <<image_path.stem, "_analysis.json">>]
    ELSE [parent |-> output_dir.path, name |-> <<image_path.stem, "_analysis.json">>]

\* the content of a file on disk: json.dump of a result, or bytes json.load
\* does not read
JsonFile(result) == [json |-> result]
Unreadable == [unreadable |-> TRUE]

\* Path.exists of a file with this content
path_exists(content) == content # NoFile

json_load(content) ==
    IF "json" \in DOMAIN content THEN Returned(content.json)
    ELSE Raise("JSONDecodeError")

\* what the model call gives: the API raises, or a response text that is no
\* JSON, or a response text that is the JSON object fields
ApiError == [error |-> TRUE]
NotJson == [text |-> TRUE]
JsonResponse(fields) == [parsed |-> fields]

\* dict.get(key, default) on a JSON object held as a record
dict_get(object, key, default) ==
    IF key \in DOMAIN object THEN object[key] ELSE default

\* confidences are held in hundredths
low_confidence_threshold == 30

\* _validate_analysis_result: the warnings in the order the checks are made,
\* stored in the metadata; no app at all raises ScreenshotAnalysisError
warnings_of(result) ==
    (IF dict_get(result, "device_type_confidence", 0) < low_confidence_threshold
     THEN <<"low_device_confidence">> ELSE <<>>)
    \o (IF dict_get(result, "date_of_screenshot", "unknown") \in {"unknown", ""}
        THEN <<"unknown_date">> ELSE <<>>)
    \o (IF Len(dict_get(result, "apps", <<>>)) < 2
        THEN <<"few_apps_detected">> ELSE <<>>)

validate_analysis_result(result) ==
    IF Len(dict_get(result, "apps", <<>>)) = 0 THEN Raise("ScreenshotAnalysisError")
    ELSE Returned([result EXCEPT !.metadata.analysis_warnings = warnings_of(result)])

\* the try block of analyze_screenshot: the model call, json.loads, the
\* metadata naming the source image, the validation.  (The timestamp and the
\* model name of the metadata are left out, and the responses carry dates
\* _normalize_date_to_2025 leaves alone: 'unknown' or a date of 2025.)
analyze_screenshot_try(image_path, response) ==
    IF "error" \in DOMAIN response THEN Raise("Exception")
    ELSE IF "text" \in DOMAIN response THEN Raise("JSONDecodeError")
    ELSE validate_analysis_result(
             ("metadata" :> [source_image |-> image_path, analysis_warnings |-> <<>>])
             @@ response.parsed)

\* analyze_screenshot as it handles every exception of its try block
\* (ScreenshotAnalysisError is an Exception): it logs and returns None, and
\* raises nothing to its caller
analyze_screenshot_catch_all(image_path, response) ==
    IF IsRaise(analyze_screenshot_try(image_path, response)) THEN Returned(None)
    ELSE analyze_screenshot_try(image_path, response)

analyze_screenshot(image_path, response) ==
    analyze_screenshot_catch_all(image_path, response)

\* the outcome of a process_single_image call: what it returned, the files
\* after it, the branch that ended it and whether the model was called
Outcome(result, store, handler, called) ==
    [result |-> result, artifacts |-> store, handler |-> handler, called |-> called]

\* process_single_image from the call of the analyzer on (lines 306-344)
analyze_and_save(store, output_file, save_json, analysis) ==
    IF IsRaise(analysis)
    THEN Outcome(None, store,
                 IF analysis.raise = "ScreenshotAnalysisError"
                 THEN "except ScreenshotAnalysisError" ELSE "except Exception", TRUE)
    ELSE IF IsNone(analysis.returned)
    THEN Outcome(None, store, "else", TRUE)
    ELSE IF "device_type" \notin DOMAIN analysis.returned
    THEN Outcome(None, store, "except Exception", TRUE)
    ELSE Outcome(analysis.returned,
                 IF save_json
                 THEN [store EXCEPT ![output_file] = JsonFile(analysis.returned)]
                 ELSE store,
                 "analyzed", TRUE)

\* process_single_image with the analyzer that ignores what is on disk
process_single_image_always(store, image_path, output_dir, save_json, reprocess_existing, response) ==
    analyze_and_save(store, expected_output_file(image_path, output_dir), save_json,
                     analyze_screenshot(image_path, response))

\* process_single_image: the stored analysis when saving is on, reprocessing
\* is not asked for and the expected file exists and loads; else the analysis
\* of the model's response, saved when saving is on
process_single_image(store, image_path, output_dir, save_json, reprocess_existing, response) ==
    IF /\ save_json
       /\ ~reprocess_existing
       /\ path_exists(store[expected_output_file(image_path, output_dir)])
       /\ ~IsRaise(json_load(store[expected_output_file(image_path, output_dir)]))
    THEN Outcome(json_load(store[expected_output_file(image_path, output_dir)]).returned,
                 store, "skipped", FALSE)
    ELSE analyze_and_save(store, expected_output_file(image_path, output_dir), save_json,
                          analyze_screenshot(image_path, response))

\* process_directory: was_skipped of an image (the file exists, read or not)
was_skipped(store, image_path, output_dir, save_json, reprocess_existing) ==
    /\ save_json
    /\ ~reprocess_existing
    /\ path_exists(store[expected_output_file(image_path, output_dir)])

\* process_directory: the statistics after the result of one image (the list
\* of the results is left out)
count_result(stats, result, skipped) ==
    IF IsNone(result) THEN [stats EXCEPT !.failed = @ + 1]
    ELSE [stats EXCEPT
             !.successful = @ + 1,
             !.skipped = IF skipped THEN @ + 1 ELSE @,
             !.processed = IF skipped THEN @ ELSE @ + 1,
             !.warnings = IF result.metadata.analysis_warnings # <<>> THEN @ + 1 ELSE @]

new_results(total_found) ==
    [total_found |-> total_found, processed |-> 0, skipped |-> 0, successful |-> 0,
     failed |-> 0, warnings |-> 0]

-----------------------------------------------------------------------------
(* Inputs of the OCR: images, output directories, model responses           *)

\* two images of one directory whose names differ in the suffix, and an image
\* of the same name in another directory
Images ==
    { ImagePath("shots/d1", "a", ".png"), ImagePath("shots/d1", "a", ".jpg"),
      ImagePath("shots/d2", "a", ".png") }

OutputDirs == {None, OutputDir("out")}

\* input directories: the two directories of the images and a directory
\* without images
InputDirs == {"shots/d1", "shots/d2", "empty"}

\* input_dir.rglob: the images below a directory
images_below(input_dir) ==
    {image \in Images : image.parent = input_dir}

ArtifactPaths ==
    {expected_output_file(image, output_dir) : image \in Images, output_dir \in OutputDirs}

App(name, minutes) == [app_name |-> name, time_spent_minutes |-> minutes]

\* the API fails, the text is no JSON, no app, one app with a low confidence
\* and no date, two apps, two apps without the device_type key
ModelResponses ==
    { ApiError,
      NotJson,
      JsonResponse([device_type |-> "iphone", device_type_confidence |-> 95,
                    date_of_screenshot |-> "2025-03-01", apps |-> <<>>]),
      JsonResponse([device_type |-> "desktop", device_type_confidence |-> 20,
                    date_of_screenshot |-> "unknown", apps |-> <<App("YouTube", 40)>>]),
      JsonResponse([device_type |-> "iphone", device_type_confidence |-> 95,
                    date_of_screenshot |-> "2025-03-01",
                    apps |-> <<App("YouTube", 40), App("Instagram", 15)>>]),
      JsonResponse([device_type_confidence |-> 95, date_of_screenshot |-> "2025-03-01",
                    apps |-> <<App("YouTube", 40), App("Instagram", 15)>>]) }

NoCall ==
    [image |-> None, output_dir |-> None, save_json |-> FALSE, reprocess_existing |-> FALSE,
     response |-> None, handler |-> "none", called |-> FALSE, result |-> None]

\* the options of the command line: --output-dir and --no-save as the
\* installation uses them, --reprocess-existing as one invocation gives it
Options(output_dir, save_json, reprocess_existing) ==
    [output_dir |-> output_dir, save_json |-> save_json,
     reprocess_existing |-> reprocess_existing]

NoRun == Options(None, FALSE, FALSE)

-----------------------------------------------------------------------------
(* Qualtrics client: qualtrics_image_downloader.py, the rate-limit retry of *)
(* create_response_export and download_uploaded_file.  Delays are held in   *)
(* milliseconds.                                                            *)

max_retries == 5
base_delay == 1000
max_delay == 60000

RECURSIVE Power2(_)
Power2(n) == IF n = 0 THEN 1 ELSE 2 * Power2(n - 1)

Min(a, b) == IF a <= b THEN a ELSE b

\* random.uniform(0.1, 0.3), in hundredths: its ends and its middle
JitterFactors == {10, 20, 30}

\* exponential_backoff_delay: no delay for attempt 0, else the base delay
\* doubled attempt - 1 times plus the jitter, capped
exponential_backoff_delay(attempt_arg, jitter_factor) ==
    IF attempt_arg = 0 THEN 0
    ELSE Min(base_delay * Power2(attempt_arg - 1)
                 + (jitter_factor * (base_delay * Power2(attempt_arg - 1))) \div 100,
             max_delay)

\* handle_rate_limit: whether the response is a 429, and the time slept
handle_rate_limit(status_code, attempt_arg, jitter_factor) ==
    IF status_code = 429
    THEN [limited |-> TRUE, slept |-> <<exponential_backoff_delay(attempt_arg, jitter_factor)>>]
    ELSE [limited |-> FALSE, slept |-> <<>>]

\* requests.Response.ok: raise_for_status does not raise
response_ok(status_code) == status_code < 400

\* one round of the loop with a body that goes on after an error response
loop_round_retry_errors(status_code, attempt_arg) ==
    IF status_code = 429 \/ ~response_ok(status_code)
    THEN (IF attempt_arg < max_retries THEN "continue" ELSE "raise HTTPError (max retries)")
    ELSE "return"

\* one round of the loop 'for attempt in range(self.max_retries + 1)': how
\* the round ends for the status code of its response
loop_round(status_code, attempt_arg) ==
    IF status_code = 429
    THEN (IF attempt_arg < max_retries THEN "continue" ELSE "raise HTTPError (max retries)")
    ELSE IF ~response_ok(status_code) THEN "raise HTTPError (status)"
    ELSE "return"

\* status codes of the server: success, rate limit, client and server errors
StatusCodes == {200, 404, 429, 500}

-----------------------------------------------------------------------------
(* Inputs of the participant report: lists of joined records               *)

\* a joined record: the usage record with the contact fields of the join
WithContact(joined_row, enrollment) ==
    [Condition |-> Str(<<"c">>), Platforms |-> Str(Android), phoneType |-> Str(<<"p">>),
     EnrollmentDate |-> Str(enrollment)] @@ joined_row

\* joined app-usage records: a record, the record with a blank after the app
\* name, another app, another participant
ReportAppPool ==
    { WithContact(JoinedApp(P001, Timestamp(Mar01, TenAM), <<"a">>, PyInt(5), Android,
                            PyInt(1)), FormatYmd(Mar01)),
      WithContact(JoinedApp(P001, Timestamp(Mar01, TenAM), <<"a", " ">>, PyInt(5), Android,
                            PyInt(1)), FormatYmd(Mar01)),
      WithContact(JoinedApp(P001, Timestamp(Mar02, TenAM), <<"b">>, PyInt(5), Android,
                            PyInt(2)), FormatYmd(Mar01)),
      WithContact(JoinedApp(P002, Timestamp(Mar01, TenAM), <<"a">>, PyInt(5), Android,
                            PyInt(7)), <<>>) }

\* joined screen-unlock records: of a participant with app usage, twice, and
\* of a participant without
ReportUnlockPool ==
    { WithContact(JoinedUnlock(P001, Timestamp(Mar01, TenAM), Android, PyInt(1)),
                  FormatYmd(Mar01)),
      WithContact(JoinedUnlock(P001, Timestamp(Mar02, TenAM), Android, PyInt(2)),
                  FormatYmd(Mar01)),
      WithContact(JoinedUnlock(P003, Timestamp(Mar01, TenAM), Other, PyInt(9)), <<>>) }

-----------------------------------------------------------------------------
(* Idle values and initial states *)

OcrIdle ==
    /\ artifacts = [path \in ArtifactPaths |-> NoFile]
    /\ call = NoCall
    /\ image_files = {}
    /\ results = new_results(0)
    /\ run_args = NoRun
    /\ ocr_pc = "idle"

RetryIdle ==
    /\ operation = "none"
    /\ attempt = 0
    /\ responses = <<>>
    /\ waits = <<>>
    /\ outcome = "idle"
    /\ files_written = 0

PullIdle ==
    /\ args = NoArgs
    /\ files_status = AllOld
    /\ pull_success = NoPulls
    /\ children = {}
    /\ child = "none"

IosIdle ==
    /\ ios_dir = FALSE
    /\ ocr_steps = <<>>
    /\ ocr_success = "not run"
    /\ ios_participant_report = <<>>
    /\ ios_report_file = NoFile
    /\ ios_report_success = "not run"

TwilioIdle ==
    /\ conversation = <<>>
    /\ sent = NoSend

NoAggregation == [pc |-> "idle"]

AggIdle == aggregation = NoAggregation

LaterIdle ==
    TwilioIdle /\ AggIdle /\ job = [pc |-> "idle"] /\ classifier = [pc |-> "idle"]

ExtIdle == PullIdle /\ IosIdle /\ LaterIdle

ClientIdle ==
    /\ OcrIdle
    /\ RetryIdle
    /\ ExtIdle

DedupIdle ==
    /\ kind = "none"
    /\ data = <<>>
    /\ deduplicated_data = <<>>
    /\ deduplicated_again = <<>>
    /\ dpc = "idle"

IdentityIdle ==
    /\ diary_file = NoFile
    /\ exit_file = NoFile
    /\ diary_submission_mapping = EmptyDict
    /\ exit_submission_mapping = EmptyDict
    /\ submission_mapping = EmptyDict

MainIdle ==
    /\ pc = "idle"
    /\ IdentityIdle

CalendarIdle ==
    /\ given = [session |-> None, enrollment |-> None]
    /\ session_datetime = None
    /\ enrollment_date_str = <<>>
    /\ enrollment_date = None
    /\ study_day = None
    /\ study_days = {}
    /\ spc = "idle"

DecodeIdle ==
    /\ uploads_file = NoFile
    /\ app_usage_records = <<>>
    /\ screen_unlocks_records = <<>>
    /\ processed_count = 0
    /\ error_count = 0
    /\ platform_counts = [platform \in {Android, Other} |-> 0]

\* the variables of the join that the iOS orchestrator does not use
JoinIdleBut ==
    /\ app_usage_file = NoFile
    /\ screen_unlocks_file = NoFile
    /\ app_usage_data = <<>>
    /\ screen_unlocks_data = <<>>
    /\ contact_data = EmptyDict
    /\ joined_app_usage = <<>>
    /\ joined_screen_unlocks = <<>>
    /\ deduplicated_app_usage = <<>>
    /\ deduplicated_screen_unlocks = <<>>
    /\ participant_report = <<>>
    /\ unmapped_submission_ids = {}

JoinIdle ==
    /\ app_usage_file = NoFile
    /\ screen_unlocks_file = NoFile
    /\ contact_file = NoFile
    /\ app_usage_data = <<>>
    /\ screen_unlocks_data = <<>>
    /\ contact_data = EmptyDict
    /\ joined_app_usage = <<>>
    /\ joined_screen_unlocks = <<>>
    /\ deduplicated_app_usage = <<>>
    /\ deduplicated_screen_unlocks = <<>>
    /\ participant_report = <<>>
    /\ unmapped_submission_ids = {}

\* main --skip-pull --skip-parse: the decoded files are those of an earlier run
InitJoin ==
    /\ ClientIdle
    /\ pc = "find_files"
    /\ diary_file \in JoinDiaryFiles
    /\ exit_file = NoFile
    /\ diary_submission_mapping = EmptyDict
    /\ exit_submission_mapping = EmptyDict
    /\ submission_mapping = EmptyDict
    /\ app_usage_file \in {File(r) : r \in SeqUpTo(AwAppPool, MaxAppRows)}
    /\ screen_unlocks_file \in AwUnlockFiles
    /\ contact_file \in ContactFiles
    /\ app_usage_data = <<>>
    /\ screen_unlocks_data = <<>>
    /\ contact_data = EmptyDict
    /\ joined_app_usage = <<>>
    /\ joined_screen_unlocks = <<>>
    /\ deduplicated_app_usage = <<>>
    /\ deduplicated_screen_unlocks = <<>>
    /\ participant_report = <<>>
    /\ unmapped_submission_ids = {}
    /\ DedupIdle
    /\ CalendarIdle
    /\ DecodeIdle

\* main --skip-pull: the raw uploads are decoded, then joined
InitMain ==
    /\ ClientIdle
    /\ pc = "parse"
    /\ \E input \in MainInputs :
           /\ uploads_file = input[1]
           /\ diary_file = input[2]
           /\ contact_file = input[3]
    /\ app_usage_records = <<>>
    /\ screen_unlocks_records = <<>>
    /\ processed_count = 0
    /\ error_count = 0
    /\ platform_counts = [platform \in {Android, Other} |-> 0]
    /\ exit_file = NoFile
    /\ diary_submission_mapping = EmptyDict
    /\ exit_submission_mapping = EmptyDict
    /\ submission_mapping = EmptyDict
    /\ app_usage_file = NoFile
    /\ screen_unlocks_file = NoFile
    /\ app_usage_data = <<>>
    /\ screen_unlocks_data = <<>>
    /\ contact_data = EmptyDict
    /\ joined_app_usage = <<>>
    /\ joined_screen_unlocks = <<>>
    /\ deduplicated_app_usage = <<>>
    /\ deduplicated_screen_unlocks = <<>>
    /\ participant_report = <<>>
    /\ unmapped_submission_ids = {}
    /\ DedupIdle
    /\ CalendarIdle

InitDedup ==
    /\ ClientIdle
    /\ kind \in {"app_usage", "screen_unlocks"}
    /\ data \in SeqUpTo(IF kind = "app_usage" THEN DedupAppPool ELSE DedupUnlockPool,
                        MaxRows)
    /\ deduplicated_data = <<>>
    /\ deduplicated_again = <<>>
    /\ dpc = "start"
    /\ MainIdle
    /\ CalendarIdle
    /\ JoinIdle
    /\ DecodeIdle

InitIdentity ==
    /\ ClientIdle
    /\ pc = "load_diary"
    /\ diary_file \in {NoFile} \cup {File(r) : r \in SeqUpTo(DiaryPool, MaxDiaryRows)}
    /\ exit_file \in {NoFile} \cup {File(r) : r \in SeqUpTo(ExitPool, MaxExitRows)}
    /\ diary_submission_mapping = EmptyDict
    /\ exit_submission_mapping = EmptyDict
    /\ submission_mapping = EmptyDict
    /\ DedupIdle
    /\ CalendarIdle
    /\ JoinIdle
    /\ DecodeIdle

\* a session and an enrollment date that both hold a date, or one of them
\* (or both) malformed next to a fixed well-formed partner
InitStudyDay ==
    /\ ClientIdle
    /\ \E b \in BaseDates, t \in TimesOfDay :
         \E sd \in {DateTime(AddDays(b, i), t) : i \in 0..MaxSpan} \cup {None},
            ed \in {DateTime(AddDays(b, j), <<0, 0, 0>>) : j \in 0..MaxEnrollOffset}
                   \cup {None} :
             /\ given = [session |-> sd, enrollment |-> ed]
             /\ IsNone(sd) \/ IsNone(ed) => b = <<2024, 12, 30>> /\ t = <<0, 0, 0>>
             /\ IsNone(sd) => IsNone(ed) \/ ed = DateTime(b, <<0, 0, 0>>)
             /\ IsNone(ed) => IsNone(sd) \/ sd = DateTime(b, t)
             /\ session_datetime \in
                    IF IsNone(sd) THEN MalformedSessions
                    ELSE SessionForms(sd.dt[1], sd.dt[2])
             /\ enrollment_date_str \in
                    IF IsNone(ed) THEN MalformedEnrollments ELSE EnrollmentForms(ed.dt[1])
    /\ enrollment_date = None
    /\ study_day = None
    /\ study_days = {}
    /\ spc = "start"
    /\ DedupIdle
    /\ MainIdle
    /\ JoinIdle
    /\ DecodeIdle

\* parse_enrollment_date on an EnrollmentDate cell: a date written in one of
\* the layouts, bare or between blanks, or a cell that holds no date
InitEnrollment ==
    /\ ClientIdle
    /\ \/ \E b \in BaseDates, j \in 0..MaxEnrollOffset, layout \in EnrollmentLayouts,
             t \in EnrollmentTimes, blanks \in BOOLEAN :
             /\ ~HasTime(layout) => t = <<9, 30, 0>>
             /\ blanks => layout = "ymd"
             /\ given = [session |-> None,
                         enrollment |-> [layout |-> layout, date |-> AddDays(b, j),
                                         time |-> t]]
             /\ enrollment_date_str =
                    IF blanks THEN <<" ">> \o Written(layout, AddDays(b, j), t) \o <<" ">>
                    ELSE Written(layout, AddDays(b, j), t)
       \/ /\ given = [session |-> None, enrollment |-> None]
          /\ enrollment_date_str \in MalformedEnrollments
    /\ session_datetime = None
    /\ enrollment_date = None
    /\ study_day = None
    /\ study_days = {}
    /\ spc = "start"
    /\ DedupIdle
    /\ MainIdle
    /\ JoinIdle
    /\ DecodeIdle

\* main with any options, on an output directory that holds any of the files
\* of an earlier run; in debug mode a file that exists is recent or old; the
\* child processes of the run behave in one of the given ways
InitMainRun(behaviours) ==
    /\ OcrIdle
    /\ RetryIdle
    /\ IosIdle
    /\ LaterIdle
    /\ children = behaviours
    /\ child = "none"
    /\ args \in {Args(skip_pull, skip_parse, debug) :
                     skip_pull \in BOOLEAN, skip_parse \in BOOLEAN, debug \in BOOLEAN}
    /\ pull_success = NoPulls
    /\ pc = "step_1"
    /\ uploads_file \in {NoFile, RemoteUploads}
    /\ diary_file \in {NoFile, ScenarioDiaryFile}
    /\ exit_file \in {NoFile, RemoteExitFile}
    /\ contact_file \in {NoFile, ScenarioContactFile}
    /\ files_status \in [Pulls -> {"recent", "old"}]
    /\ IF args.debug /\ ~args.skip_pull
       THEN /\ ~Exists(uploads_file) => files_status["ActivityWatch data"] = "old"
            /\ ~Exists(diary_file) => files_status["Diary responses"] = "old"
            /\ ~Exists(exit_file) => files_status["Exit survey data"] = "old"
            /\ ~Exists(contact_file) => files_status["Contact list data"] = "old"
       ELSE files_status = AllOld
    /\ \E decoded \in BOOLEAN :
           /\ ~args.skip_parse => ~decoded
           /\ app_usage_file =
                  IF decoded
                  THEN write_csv_file(parse_supabase_data(RemoteUploads.rows).app_usage_records)
                  ELSE NoFile
           /\ screen_unlocks_file =
                  IF decoded
                  THEN write_csv_file(parse_supabase_data(RemoteUploads.rows).screen_unlocks_records)
                  ELSE NoFile
    /\ app_usage_records = <<>>
    /\ screen_unlocks_records = <<>>
    /\ processed_count = 0
    /\ error_count = 0
    /\ platform_counts = [platform \in {Android, Other} |-> 0]
    /\ diary_submission_mapping = EmptyDict
    /\ exit_submission_mapping = EmptyDict
    /\ submission_mapping = EmptyDict
    /\ app_usage_data = <<>>
    /\ screen_unlocks_data = <<>>
    /\ contact_data = EmptyDict
    /\ joined_app_usage = <<>>
    /\ joined_screen_unlocks = <<>>
    /\ deduplicated_app_usage = <<>>
    /\ deduplicated_screen_unlocks = <<>>
    /\ participant_report = <<>>
    /\ unmapped_submission_ids = {}
    /\ DedupIdle
    /\ CalendarIdle

\* the runs of main whose child processes all exit
InitPull == InitMainRun(Exits)

\* join_diary_ios.main with any options, on an output directory that holds
\* any of the files of an earlier run, with child processes that exit or
\* do not
InitIos ==
    /\ OcrIdle
    /\ RetryIdle
    /\ LaterIdle
    /\ DedupIdle
    /\ CalendarIdle
    /\ DecodeIdle
    /\ JoinIdleBut
    /\ pc = "ios_step_1"
    /\ args \in {IosArgs(skip_pull, skip_ocr, debug) :
                     skip_pull \in BOOLEAN, skip_ocr \in BOOLEAN, debug \in BOOLEAN}
    /\ children = ExitsOrHangs
    /\ child = "none"
    /\ pull_success = [k \in 1..Len(IosPulls) |-> "not pulled"]
    /\ ios_dir \in BOOLEAN
    /\ diary_file \in IosDiaryFiles
    /\ contact_file \in IosContactFiles
    /\ files_status \in [1..Len(IosPulls) -> {"recent", "old"}]
    /\ IF args.debug /\ ~args.skip_pull
       THEN /\ ~ios_dir => files_status[1] = "old"
            /\ ~Exists(diary_file) => files_status[2] = "old"
            /\ ~Exists(contact_file) => files_status[3] = "old"
       ELSE files_status = [k \in 1..Len(IosPulls) |-> "old"]
    /\ exit_file = NoFile
    /\ diary_submission_mapping = EmptyDict
    /\ exit_submission_mapping = EmptyDict
    /\ submission_mapping = EmptyDict
    /\ ocr_steps = <<>>
    /\ ocr_success = "not run"
    /\ ios_participant_report = <<>>
    /\ ios_report_file = NoFile
    /\ ios_report_success = "not run"

\* the runs of both orchestrators, with child processes that exit or do not
InitOrchestrators == InitMainRun(ExitsOrHangs) \/ InitIos

\* send_message about to be called on a conversation
InitSend ==
    /\ OcrIdle
    /\ RetryIdle
    /\ PullIdle
    /\ IosIdle
    /\ DedupIdle
    /\ MainIdle
    /\ CalendarIdle
    /\ JoinIdle
    /\ DecodeIdle
    /\ conversation \in Conversations
    /\ sent = NoSend
    /\ AggIdle
    /\ job = [pc |-> "idle"]
    /\ classifier = [pc |-> "idle"]

\* the OCR command line with its output directory and its saving option: no
\* artifact on disk yet, or a file json.load does not read where an artifact
\* is expected (cut short by an interrupted run)
InitOcr ==
    /\ \E unreadable \in SUBSET ArtifactPaths :
           /\ Cardinality(unreadable) <= 1
           /\ artifacts = [path \in ArtifactPaths |->
                              IF path \in unreadable THEN Unreadable ELSE NoFile]
    /\ call = NoCall
    /\ image_files = {}
    /\ results = new_results(0)
    /\ \E output_dir \in OutputDirs, save_json \in BOOLEAN :
           run_args = Options(output_dir, save_json, FALSE)
    /\ ocr_pc = "idle"
    /\ RetryIdle
    /\ ExtIdle
    /\ DedupIdle
    /\ MainIdle
    /\ CalendarIdle
    /\ JoinIdle
    /\ DecodeIdle

\* a call of the Qualtrics client about to send its first request
InitRetry ==
    /\ operation \in {"create_response_export", "download_uploaded_file"}
    /\ attempt = 0
    /\ responses = <<>>
    /\ waits = <<>>
    /\ outcome = "running"
    /\ files_written = 0
    /\ OcrIdle
    /\ ExtIdle
    /\ DedupIdle
    /\ MainIdle
    /\ CalendarIdle
    /\ JoinIdle
    /\ DecodeIdle

\* the deduplicators and the participant report on lists of joined records
InitReport ==
    /\ ClientIdle
    /\ pc = "deduplicate_joined"
    /\ joined_app_usage \in SeqUpTo(ReportAppPool, MaxReportRows)
    /\ joined_screen_unlocks \in SeqUpTo(ReportUnlockPool, MaxReportRows)
    /\ app_usage_file = NoFile
    /\ screen_unlocks_file = NoFile
    /\ contact_file = NoFile
    /\ app_usage_data = <<>>
    /\ screen_unlocks_data = <<>>
    /\ contact_data = EmptyDict
    /\ deduplicated_app_usage = <<>>
    /\ deduplicated_screen_unlocks = <<>>
    /\ participant_report = <<>>
    /\ unmapped_submission_ids = {}
    /\ IdentityIdle
    /\ DedupIdle
    /\ CalendarIdle
    /\ DecodeIdle

-----------------------------------------------------------------------------
(* Actions *)

Deduplicate(rows) ==
    IF kind = "app_usage" THEN deduplicate_app_usage(rows)
    ELSE deduplicate_screen_unlocks(rows)

\* deduplicated = deduplicate_...(joined)
RunDedup ==
    /\ dpc = "start"
    /\ deduplicated_data' = Deduplicate(data)
    /\ dpc' = "deduplicated"
    /\ UNCHANGED <<kind, data, deduplicated_again>>
    /\ UNCHANGED <<mainVars, calendarVars, joinVars, decodeVars, clientVars>>

\* the deduplicator applied to its own output
RunDedupAgain ==
    /\ dpc = "deduplicated"
    /\ deduplicated_again' = Deduplicate(deduplicated_data)
    /\ dpc' = "again"
    /\ UNCHANGED <<kind, data, deduplicated_data>>
    /\ UNCHANGED <<mainVars, calendarVars, joinVars, decodeVars, clientVars>>

\* open(diary_file) raises when the file is missing
LoadDiary ==
    /\ pc = "load_diary"
    /\ IF Exists(diary_file)
       THEN /\ diary_submission_mapping' = load_diary_unique_tuples(diary_file.rows)
            /\ pc' = "load_exit"
       ELSE /\ diary_submission_mapping' = diary_submission_mapping
            /\ pc' = "crashed"
    /\ UNCHANGED <<diary_file, exit_file, exit_submission_mapping, submission_mapping>>
    /\ UNCHANGED <<dedupVars, calendarVars, joinVars, decodeVars, clientVars>>

LoadExit ==
    /\ pc = "load_exit"
    /\ exit_submission_mapping' = load_exit_survey_data(exit_file)
    /\ pc' = "combine"
    /\ UNCHANGED <<diary_file, exit_file, diary_submission_mapping, submission_mapping>>
    /\ UNCHANGED <<dedupVars, calendarVars, joinVars, decodeVars, clientVars>>

CombineMappings ==
    /\ pc = "combine"
    /\ submission_mapping' =
           combine_mappings(diary_submission_mapping, exit_submission_mapping)
    /\ pc' = "load_contact"
    /\ UNCHANGED <<diary_file, exit_file, diary_submission_mapping,
                   exit_submission_mapping>>
    /\ UNCHANGED <<dedupVars, calendarVars, joinVars, decodeVars, clientVars>>

\* the end of parse_supabase_data: the collections, the counters and the
\* two files, each written only when it has records; main exits when one of
\* the files was not written
StoreParsed(parsed) ==
    /\ app_usage_records' = parsed.app_usage_records
    /\ screen_unlocks_records' = parsed.screen_unlocks_records
    /\ processed_count' = parsed.processed_count
    /\ error_count' = parsed.error_count
    /\ platform_counts' = parsed.platform_counts
    /\ app_usage_file' = write_csv_file(parsed.app_usage_records)
    /\ screen_unlocks_file' = write_csv_file(parsed.screen_unlocks_records)
    /\ pc' = IF parsed.app_usage_records # <<>> /\ parsed.screen_unlocks_records # <<>>
             THEN "load_diary" ELSE "exit_1"

\* app_usage_file, screen_unlocks_file = parse_supabase_data(raw_data_file, ...)
ParseSupabaseData ==
    /\ pc = "parse"
    /\ StoreParsed(parse_supabase_data(uploads_file.rows))
    /\ UNCHANGED <<uploads_file, contact_file, app_usage_data, screen_unlocks_data,
                   contact_data, joined_app_usage, joined_screen_unlocks,
                   deduplicated_app_usage, deduplicated_screen_unlocks,
                   participant_report, unmapped_submission_ids>>
    /\ UNCHANGED <<identityVars, dedupVars, calendarVars, clientVars>>

\* what a pull step leaves alone
PullStepKeeps ==
    /\ UNCHANGED <<args, files_status, children, ocrVars, retryVars, iosVars, laterVars>>
    /\ UNCHANGED <<diary_submission_mapping, exit_submission_mapping, submission_mapping>>
    /\ UNCHANGED <<app_usage_file, screen_unlocks_file, app_usage_data,
                   screen_unlocks_data, contact_data, joined_app_usage,
                   joined_screen_unlocks, deduplicated_app_usage,
                   deduplicated_screen_unlocks, participant_report,
                   unmapped_submission_ids>>
    /\ UNCHANGED <<app_usage_records, screen_unlocks_records, processed_count,
                   error_count, platform_counts>>
    /\ UNCHANGED <<dedupVars, calendarVars>>

\* step 1 of main: with --skip-pull the diary file has to exist; in debug
\* mode no pull is made when every file is recent
BeginStep1 ==
    /\ pc = "step_1"
    /\ pc' = IF args.skip_pull
             THEN (IF Exists(diary_file) THEN after_pull(args) ELSE "exit_1")
             ELSE IF any_pull(args, files_status) THEN "pull_activitywatch"
             ELSE after_pull(args)
    /\ UNCHANGED <<uploads_file, diary_file, exit_file, contact_file, pull_success, child>>
    /\ PullStepKeeps

\* a pull step of main on a file: the pull function runs its child and
\* returns, or the call never returns; success writes the file
PullStep(description, file, delivered, success_pc, failure_pc) ==
    IF pull_needed(args, files_status, description)
    THEN \E behaviour \in children :
           LET success == pull_without_timeout(behaviour) IN
           /\ child' = behaviour
           /\ IF success = Blocked
              THEN /\ pc' = "blocked"
                   /\ file' = file
                   /\ UNCHANGED pull_success
              ELSE /\ pull_success' = [pull_success EXCEPT ![description] =
                                          IF success.returned THEN "succeeded"
                                          ELSE "failed"]
                   /\ file' = IF success.returned THEN delivered ELSE file
                   /\ pc' = IF success.returned THEN success_pc ELSE failure_pc
    ELSE /\ pc' = success_pc
         /\ file' = file
         /\ UNCHANGED <<pull_success, child>>

\* 1.1: aw_success = pull_supabase_data(raw_data_file); main exits without it
PullActivityWatch ==
    /\ pc = "pull_activitywatch"
    /\ PullStep("ActivityWatch data", uploads_file, RemoteUploads, "pull_diary", "exit_1")
    /\ UNCHANGED <<diary_file, exit_file, contact_file>>
    /\ PullStepKeeps

\* 1.2: diary_result = subprocess.run(diary_export_cmd), without timeout and
\* outside any try; main continues whatever the return code is
PullDiary ==
    /\ pc = "pull_diary"
    /\ PullStep("Diary responses", diary_file, ScenarioDiaryFile, "pull_exit", "pull_exit")
    /\ UNCHANGED <<uploads_file, exit_file, contact_file>>
    /\ PullStepKeeps

\* 1.3: exit_success = pull_exit_survey_data(output_dir); a warning without it
PullExitSurvey ==
    /\ pc = "pull_exit"
    /\ PullStep("Exit survey data", exit_file, RemoteExitFile, "pull_contact",
                "pull_contact")
    /\ UNCHANGED <<uploads_file, diary_file, contact_file>>
    /\ PullStepKeeps

\* 1.4: contact_success = pull_contact_list_data(output_dir); a warning
\* without it
PullContactList ==
    /\ pc = "pull_contact"
    /\ PullStep("Contact list data", contact_file, ScenarioContactFile, after_pull(args),
                after_pull(args))
    /\ UNCHANGED <<uploads_file, diary_file, exit_file>>
    /\ PullStepKeeps

\* step 2 with --skip-pull: the raw uploads of an earlier run are decoded, and
\* main exits when there are none
ParseExistingData ==
    /\ pc = "parse_existing"
    /\ IF Exists(uploads_file)
       THEN StoreParsed(parse_supabase_data(uploads_file.rows))
       ELSE /\ pc' = "exit_1"
            /\ UNCHANGED <<app_usage_records, screen_unlocks_records, processed_count,
                           error_count, platform_counts, app_usage_file,
                           screen_unlocks_file>>
    /\ UNCHANGED <<uploads_file, contact_file, app_usage_data, screen_unlocks_data,
                   contact_data, joined_app_usage, joined_screen_unlocks,
                   deduplicated_app_usage, deduplicated_screen_unlocks,
                   participant_report, unmapped_submission_ids>>
    /\ UNCHANGED <<identityVars, dedupVars, calendarVars, clientVars>>

\* what a step of join_diary_ios.main leaves alone
IosStepKeeps ==
    /\ UNCHANGED <<args, files_status, children, ocrVars, retryVars, laterVars>>
    /\ UNCHANGED <<exit_file, diary_submission_mapping, exit_submission_mapping,
                   submission_mapping>>
    /\ UNCHANGED <<app_usage_file, screen_unlocks_file, app_usage_data,
                   screen_unlocks_data, contact_data, joined_app_usage,
                   joined_screen_unlocks, deduplicated_app_usage,
                   deduplicated_screen_unlocks, participant_report,
                   unmapped_submission_ids>>
    /\ UNCHANGED <<dedupVars, calendarVars, decodeVars>>

\* where main goes after step 1
after_ios_pull(options) == IF options.skip_ocr THEN "ios_report" ELSE "ios_ocr"

\* step 1 of join_diary_ios.main: nothing is pulled with --skip-pull
IosBeginStep1 ==
    /\ pc = "ios_step_1"
    /\ pc' = IF args.skip_pull THEN after_ios_pull(args) ELSE "ios_pull_1"
    /\ UNCHANGED <<diary_file, contact_file, pull_success, child, iosVars>>
    /\ IosStepKeeps

\* whether main calls the pull function: always in normal mode, for the
\* files of needs_refresh in debug mode
ios_pull_needed(options, status, k) == ~options.debug \/ status[k] = "old"

\* 1.1: screenshot_success = pull_qualtrics_screenshots(output_dir); a child
\* that exits with 0 has made diary_images/ios or has not
IosPullScreenshots ==
    /\ pc = "ios_pull_1"
    /\ IF ios_pull_needed(args, files_status, 1)
       THEN \E behaviour \in children, made \in BOOLEAN :
              /\ made => behaviour = "exit_0"
              /\ child' = behaviour
              /\ ios_dir' = (ios_dir \/ made)
              /\ pull_success' = [pull_success EXCEPT ![1] =
                                      pull_qualtrics_screenshots(behaviour, ios_dir')]
       ELSE UNCHANGED <<ios_dir, pull_success, child>>
    /\ pc' = "ios_pull_2"
    /\ UNCHANGED <<diary_file, contact_file, ocr_steps, ocr_success,
                   ios_participant_report, ios_report_file, ios_report_success>>
    /\ IosStepKeeps

\* 1.2: diary_success = pull_diary_data(output_dir)
IosPullDiary ==
    /\ pc = "ios_pull_2"
    /\ IF ios_pull_needed(args, files_status, 2)
       THEN \E behaviour \in children, written \in BOOLEAN :
              /\ written => behaviour = "exit_0"
              /\ child' = behaviour
              /\ diary_file' = IF written THEN RemoteIosDiaryFile ELSE diary_file
              /\ pull_success' = [pull_success EXCEPT ![2] =
                                      pull_file_data(IosPulls[2], behaviour,
                                                     Exists(diary_file'))]
       ELSE UNCHANGED <<diary_file, pull_success, child>>
    /\ pc' = "ios_pull_3"
    /\ UNCHANGED <<contact_file, iosVars>>
    /\ IosStepKeeps

\* 1.3: contact_success = pull_contact_list_data(output_dir)
IosPullContactList ==
    /\ pc = "ios_pull_3"
    /\ IF ios_pull_needed(args, files_status, 3)
       THEN \E behaviour \in children, written \in BOOLEAN :
              /\ written => behaviour = "exit_0"
              /\ child' = behaviour
              /\ contact_file' = IF written THEN RemoteIosContactFile ELSE contact_file
              /\ pull_success' = [pull_success EXCEPT ![3] =
                                      pull_file_data(IosPulls[3], behaviour,
                                                     Exists(contact_file'))]
       ELSE UNCHANGED <<contact_file, pull_success, child>>
    /\ pc' = after_ios_pull(args)
    /\ UNCHANGED <<diary_file, iosVars>>
    /\ IosStepKeeps

\* run_ocr_analysis, one subprocess.run at a time: a non-zero return code
\* returns False, TimeoutExpired is caught and returns False, and the fourth
\* step done returns True
RunOcrStep ==
    /\ pc = "ios_ocr"
    /\ \E behaviour \in children :
         LET step == ocr_pipeline[Len(ocr_steps) + 1]
             result == subprocess_run(step.timeout, behaviour)
         IN  /\ child' = behaviour
             /\ ocr_steps' = Append(ocr_steps, [cmd |-> step.cmd, child |-> behaviour])
             /\ IF IsRaise(result) \/ result.returncode # 0
                THEN ocr_success' = "False" /\ pc' = "ios_report"
                ELSE IF Len(ocr_steps') = Len(ocr_pipeline)
                THEN ocr_success' = "True" /\ pc' = "ios_report"
                ELSE ocr_success' = ocr_success /\ pc' = "ios_ocr"
    /\ UNCHANGED <<diary_file, contact_file, pull_success, ios_dir,
                   ios_participant_report, ios_report_file, ios_report_success>>
    /\ IosStepKeeps

\* step 3: ios_report_success = generate_ios_participant_report(output_dir)
GenerateIosReport ==
    /\ pc = "ios_report"
    /\ LET generated == generate_ios_participant_report(diary_file, contact_file,
                                                        ios_report_file)
       IN  /\ ios_report_success' = generated.success
           /\ ios_participant_report' = generated.report
           /\ ios_report_file' = generated.file
    /\ pc' = "ios_check"
    /\ UNCHANGED <<diary_file, contact_file, pull_success, child, ios_dir, ocr_steps,
                   ocr_success>>
    /\ IosStepKeeps

\* step 4: check_output_files and the return code of main; the outputs of
\* the OCR scripts are there or not
CheckOutputFiles ==
    /\ pc = "ios_check"
    /\ \E ocr_outputs \in BOOLEAN :
           pc' = IF ios_dir /\ Exists(diary_file) /\ Exists(contact_file) /\ ocr_outputs
                 THEN "ios_return_0" ELSE "ios_return_1"
    /\ UNCHANGED <<diary_file, contact_file, pull_success, child, iosVars>>
    /\ IosStepKeeps

\* send_message on the conversation: the list request and the create
\* request succeed or fail
SendMessage ==
    /\ ~sent.called
    /\ \E list_ok \in BOOLEAN, create_ok \in BOOLEAN :
         LET done == send_message(conversation, list_ok, create_ok) IN
         /\ conversation' = done.created \o conversation
         /\ sent' = [called |-> TRUE, before |-> conversation, list_ok |-> list_ok,
                     use_session |-> done.use_session, created |-> done.created,
                     raised |-> done.raised]
    /\ UNCHANGED <<dedupVars, mainVars, calendarVars, joinVars, decodeVars, ocrVars,
                   retryVars, pullVars, iosVars, aggVars, jobVars,
                   classifierVars>>

\* find_activitywatch_files: main exits when a decoded file is missing
FindFiles ==
    /\ pc = "find_files"
    /\ pc' = IF Exists(app_usage_file) /\ Exists(screen_unlocks_file)
             THEN "load_diary" ELSE "exit_1"
    /\ UNCHANGED <<identityVars, joinVars, dedupVars, calendarVars, decodeVars, clientVars>>

LoadContact ==
    /\ pc = "load_contact"
    /\ contact_data' = load_contact_list_data(contact_file)
    /\ pc' = "load_app"
    /\ UNCHANGED <<app_usage_file, screen_unlocks_file, contact_file, app_usage_data,
                   screen_unlocks_data, joined_app_usage, joined_screen_unlocks,
                   deduplicated_app_usage, deduplicated_screen_unlocks,
                   participant_report, unmapped_submission_ids>>
    /\ UNCHANGED <<identityVars, dedupVars, calendarVars, decodeVars, clientVars>>

\* app_usage_data = load_activitywatch_data(app_usage_file)
\* joined_app_usage = perform_left_join(app_usage_data, ...)
JoinAppUsage ==
    /\ pc = "load_app"
    /\ LET loaded == load_activitywatch_data(app_usage_file.rows) IN
       IF IsRaise(loaded)
       THEN /\ pc' = "crashed"
            /\ UNCHANGED <<app_usage_data, joined_app_usage>>
       ELSE /\ app_usage_data' = loaded.returned
            /\ joined_app_usage' =
                   perform_left_join(loaded.returned, submission_mapping, contact_data)
            /\ pc' = "dedup_app"
    /\ UNCHANGED <<app_usage_file, screen_unlocks_file, contact_file, contact_data,
                   screen_unlocks_data, joined_screen_unlocks,
                   deduplicated_app_usage, deduplicated_screen_unlocks,
                   participant_report, unmapped_submission_ids>>
    /\ UNCHANGED <<identityVars, dedupVars, calendarVars, decodeVars, clientVars>>

\* deduplicated_app_usage = deduplicate_app_usage(joined_app_usage)
\* joined_app_usage = deduplicated_app_usage
DeduplicateAppUsage ==
    /\ pc = "dedup_app"
    /\ deduplicated_app_usage' = deduplicate_app_usage(joined_app_usage)
    /\ joined_app_usage' = deduplicated_app_usage'
    /\ pc' = "load_unlocks"
    /\ UNCHANGED <<app_usage_file, screen_unlocks_file, contact_file, contact_data,
                   app_usage_data, screen_unlocks_data, joined_screen_unlocks,
                   deduplicated_screen_unlocks, participant_report,
                   unmapped_submission_ids>>
    /\ UNCHANGED <<identityVars, dedupVars, calendarVars, decodeVars, clientVars>>

JoinScreenUnlocks ==
    /\ pc = "load_unlocks"
    /\ LET loaded == load_activitywatch_data(screen_unlocks_file.rows) IN
       IF IsRaise(loaded)
       THEN /\ pc' = "crashed"
            /\ UNCHANGED <<screen_unlocks_data, joined_screen_unlocks>>
       ELSE /\ screen_unlocks_data' = loaded.returned
            /\ joined_screen_unlocks' =
                   perform_left_join(loaded.returned, submission_mapping, contact_data)
            /\ pc' = "dedup_unlocks"
    /\ UNCHANGED <<app_usage_file, screen_unlocks_file, contact_file, contact_data,
                   app_usage_data, joined_app_usage,
                   deduplicated_app_usage, deduplicated_screen_unlocks,
                   participant_report, unmapped_submission_ids>>
    /\ UNCHANGED <<identityVars, dedupVars, calendarVars, decodeVars, clientVars>>

DeduplicateScreenUnlocks ==
    /\ pc = "dedup_unlocks"
    /\ deduplicated_screen_unlocks' = deduplicate_screen_unlocks(joined_screen_unlocks)
    /\ joined_screen_unlocks' = deduplicated_screen_unlocks'
    /\ pc' = "report"
    /\ UNCHANGED <<app_usage_file, screen_unlocks_file, contact_file, contact_data,
                   app_usage_data, screen_unlocks_data, joined_app_usage,
                   deduplicated_app_usage, participant_report,
                   unmapped_submission_ids>>
    /\ UNCHANGED <<identityVars, dedupVars, calendarVars, decodeVars, clientVars>>

\* participant_report = generate_participant_report(...): an exception of the
\* study-day mapping is caught nowhere and ends main
GenerateReport ==
    /\ pc = "report"
    /\ LET report == generate_participant_report(joined_app_usage,
                         joined_screen_unlocks, contact_data) IN
       IF IsRaise(report)
       THEN /\ pc' = "report_raised"
            /\ UNCHANGED participant_report
       ELSE /\ participant_report' = report.returned
            /\ pc' = "statistics"
    /\ UNCHANGED <<app_usage_file, screen_unlocks_file, contact_file, contact_data,
                   app_usage_data, screen_unlocks_data, joined_app_usage,
                   joined_screen_unlocks, deduplicated_app_usage,
                   deduplicated_screen_unlocks, unmapped_submission_ids>>
    /\ UNCHANGED <<identityVars, dedupVars, calendarVars, decodeVars, clientVars>>

\* the submission ids without RANDOM_ID mapping
MappingStatistics ==
    /\ pc = "statistics"
    /\ unmapped_submission_ids' =
           unmapped_ids(app_usage_data, screen_unlocks_data, submission_mapping)
    /\ pc' = "done"
    /\ UNCHANGED <<app_usage_file, screen_unlocks_file, contact_file, contact_data,
                   app_usage_data, screen_unlocks_data, joined_app_usage,
                   joined_screen_unlocks, deduplicated_app_usage,
                   deduplicated_screen_unlocks, participant_report>>
    /\ UNCHANGED <<identityVars, dedupVars, calendarVars, decodeVars, clientVars>>

\* enrollment_date = parse_enrollment_date(record.get('EnrollmentDate', ''))
ParseEnrollment ==
    /\ spc = "start"
    /\ IF enrollment_date_str = <<>>
       THEN enrollment_date' = None /\ spc' = "skipped"
       ELSE /\ enrollment_date' = parse_enrollment_date(enrollment_date_str)
            /\ spc' = IF IsNone(enrollment_date') THEN "skipped" ELSE "parsed"
    /\ UNCHANGED <<given, session_datetime, enrollment_date_str, study_day, study_days>>
    /\ UNCHANGED <<dedupVars, mainVars, joinVars, decodeVars, clientVars>>

\* study_day = calculate_study_day(record.get('session_datetime'), enrollment_date)
CalculateStudyDay ==
    /\ spc = "parsed"
    /\ study_day' = calculate_study_day(session_datetime, enrollment_date)
    /\ spc' = IF IsRaise(study_day') THEN "raised" ELSE "calculated"
    /\ UNCHANGED <<given, session_datetime, enrollment_date_str, enrollment_date,
                   study_days>>
    /\ UNCHANGED <<dedupVars, mainVars, joinVars, decodeVars, clientVars>>

\* if study_day: study_days.add(study_day)
AddStudyDay ==
    /\ spc = "calculated"
    /\ study_days' = IF IsDay(study_day) /\ study_day.day # 0
                     THEN study_days \cup {study_day.day} ELSE study_days
    /\ spc' = "done"
    /\ UNCHANGED <<given, session_datetime, enrollment_date_str, enrollment_date,
                   study_day>>
    /\ UNCHANGED <<dedupVars, mainVars, joinVars, decodeVars, clientVars>>

\* the record of a process_single_image call
CallOf(image_path, output_dir, save_json, reprocess_existing, response, done) ==
    [image |-> image_path, output_dir |-> output_dir, save_json |-> save_json,
     reprocess_existing |-> reprocess_existing, response |-> response,
     handler |-> done.handler, called |-> done.called, result |-> done.result]

StoreCall(image_path, output_dir, save_json, reprocess_existing, response, done) ==
    /\ artifacts' = done.artifacts
    /\ call' = CallOf(image_path, output_dir, save_json, reprocess_existing, response, done)

\* main on an image file: one process_single_image call of a new process,
\* which has no statistics of a directory
ProcessSingleImage ==
    /\ ocr_pc = "idle"
    /\ \E image_path \in Images, reprocess_existing \in BOOLEAN,
          response \in ModelResponses :
           StoreCall(image_path, run_args.output_dir, run_args.save_json,
                     reprocess_existing, response,
                     process_single_image(artifacts, image_path, run_args.output_dir,
                                          run_args.save_json, reprocess_existing,
                                          response))
    /\ results' = new_results(0)
    /\ UNCHANGED <<image_files, run_args, ocr_pc>>
    /\ UNCHANGED <<retryVars, extVars, dedupVars, mainVars, calendarVars, joinVars, decodeVars>>

\* main on a directory, a new process: process_directory finds the images;
\* without an image it returns at once
ProcessDirectory ==
    /\ ocr_pc = "idle"
    /\ \E input_dir \in InputDirs, reprocess_existing \in BOOLEAN :
           /\ image_files' = images_below(input_dir)
           /\ results' = new_results(Cardinality(images_below(input_dir)))
           /\ IF images_below(input_dir) = {}
              THEN UNCHANGED <<run_args, ocr_pc>>
              ELSE /\ run_args' = Options(run_args.output_dir, run_args.save_json,
                                         reprocess_existing)
                   /\ ocr_pc' = "directory"
    /\ call' = NoCall
    /\ UNCHANGED artifacts
    /\ UNCHANGED <<retryVars, extVars, dedupVars, mainVars, calendarVars, joinVars, decodeVars>>

\* one round of the loop of process_directory; the images come in the order
\* of a set of suffixes and of the directory listing, which is any order
ProcessDirectoryImage ==
    /\ ocr_pc = "directory"
    /\ \E image_path \in image_files, response \in ModelResponses :
           /\ StoreCall(image_path, run_args.output_dir, run_args.save_json, run_args.reprocess_existing,
                        response,
                        process_single_image(artifacts, image_path, run_args.output_dir,
                                             run_args.save_json, run_args.reprocess_existing,
                                             response))
           /\ results' = count_result(
                   results,
                   process_single_image(artifacts, image_path, run_args.output_dir,
                                        run_args.save_json, run_args.reprocess_existing,
                                        response).result,
                   was_skipped(artifacts, image_path, run_args.output_dir, run_args.save_json,
                               run_args.reprocess_existing))
           /\ image_files' = image_files \ {image_path}
    /\ UNCHANGED <<run_args, ocr_pc>>
    /\ UNCHANGED <<retryVars, extVars, dedupVars, mainVars, calendarVars, joinVars, decodeVars>>

\* process_directory returns its statistics
ProcessDirectoryReturn ==
    /\ ocr_pc = "directory"
    /\ image_files = {}
    /\ ocr_pc' = "idle"
    /\ run_args' = Options(run_args.output_dir, run_args.save_json, FALSE)
    /\ UNCHANGED <<artifacts, call, image_files, results>>
    /\ UNCHANGED <<retryVars, extVars, dedupVars, mainVars, calendarVars, joinVars, decodeVars>>

\* one round of a retry loop: the request, the response with its status code,
\* the sleep of handle_rate_limit, and the end of the round
LoopRound(status_code, jitter_factor) ==
    /\ responses' = Append(responses, status_code)
    /\ waits' = waits \o handle_rate_limit(status_code, attempt, jitter_factor).slept
    /\ attempt' = IF loop_round(status_code, attempt) = "continue"
                  THEN attempt + 1 ELSE attempt
    /\ outcome' = IF loop_round(status_code, attempt) = "continue"
                  THEN "running" ELSE loop_round(status_code, attempt)

\* create_response_export: a round of its loop; on success it returns the id
\* of the export
CreateResponseExportRound ==
    /\ operation = "create_response_export"
    /\ outcome = "running"
    /\ \E status_code \in StatusCodes, jitter_factor \in JitterFactors :
           LoopRound(status_code, jitter_factor)
    /\ UNCHANGED <<operation, files_written>>
    /\ UNCHANGED <<ocrVars, extVars, dedupVars, mainVars, calendarVars, joinVars, decodeVars>>

\* download_uploaded_file: a round of its loop; on success it writes the
\* file and returns its path
DownloadUploadedFileRound ==
    /\ operation = "download_uploaded_file"
    /\ outcome = "running"
    /\ \E status_code \in StatusCodes, jitter_factor \in JitterFactors :
           /\ LoopRound(status_code, jitter_factor)
           /\ files_written' = IF loop_round(status_code, attempt) = "return"
                                THEN files_written + 1 ELSE files_written
    /\ UNCHANGED operation
    /\ UNCHANGED <<ocrVars, extVars, dedupVars, mainVars, calendarVars, joinVars, decodeVars>>

\* deduplicate_app_usage and deduplicate_screen_unlocks on the joined lists
DeduplicateJoined ==
    /\ pc = "deduplicate_joined"
    /\ deduplicated_app_usage' = deduplicate_app_usage(joined_app_usage)
    /\ deduplicated_screen_unlocks' = deduplicate_screen_unlocks(joined_screen_unlocks)
    /\ pc' = "report_joined"
    /\ UNCHANGED <<app_usage_file, screen_unlocks_file, contact_file, contact_data,
                   app_usage_data, screen_unlocks_data, joined_app_usage,
                   joined_screen_unlocks, participant_report, unmapped_submission_ids>>
    /\ UNCHANGED <<identityVars, dedupVars, calendarVars, decodeVars, clientVars>>

\* generate_participant_report on the joined lists as they are
ReportJoined ==
    /\ pc = "report_joined"
    /\ LET report == generate_participant_report(joined_app_usage,
                         joined_screen_unlocks, contact_data) IN
       IF IsRaise(report)
       THEN /\ pc' = "report_raised"
            /\ UNCHANGED participant_report
       ELSE /\ participant_report' = report.returned
            /\ pc' = "reported"
    /\ UNCHANGED <<app_usage_file, screen_unlocks_file, contact_file, contact_data,
                   app_usage_data, screen_unlocks_data, joined_app_usage,
                   joined_screen_unlocks, deduplicated_app_usage,
                   deduplicated_screen_unlocks, unmapped_submission_ids>>
    /\ UNCHANGED <<identityVars, dedupVars, calendarVars, decodeVars, clientVars>>

-----------------------------------------------------------------------------
(* Specifications *)

NextDedup == RunDedup \/ RunDedupAgain

SpecDedup == InitDedup /\ [][NextDedup]_vars

NextIdentity == LoadDiary \/ LoadExit \/ CombineMappings

SpecIdentity == InitIdentity /\ [][NextIdentity]_vars

NextStudyDay == ParseEnrollment \/ CalculateStudyDay \/ AddStudyDay

SpecStudyDay == InitStudyDay /\ [][NextStudyDay]_vars

NextEnrollment == ParseEnrollment

SpecEnrollment == InitEnrollment /\ [][NextEnrollment]_vars

NextJoin ==
    \/ FindFiles
    \/ LoadDiary
    \/ LoadExit
    \/ CombineMappings
    \/ LoadContact
    \/ JoinAppUsage
    \/ DeduplicateAppUsage
    \/ JoinScreenUnlocks
    \/ DeduplicateScreenUnlocks
    \/ GenerateReport
    \/ MappingStatistics

SpecJoin == InitJoin /\ [][NextJoin]_vars

NextMain ==
    \/ ParseSupabaseData
    \/ LoadDiary
    \/ LoadExit
    \/ CombineMappings
    \/ LoadContact
    \/ JoinAppUsage
    \/ DeduplicateAppUsage
    \/ JoinScreenUnlocks
    \/ DeduplicateScreenUnlocks
    \/ GenerateReport
    \/ MappingStatistics

SpecMain == InitMain /\ [][NextMain]_vars

NextPull ==
    \/ BeginStep1
    \/ PullActivityWatch
    \/ PullDiary
    \/ PullExitSurvey
    \/ PullContactList
    \/ ParseSupabaseData
    \/ ParseExistingData
    \/ FindFiles
    \/ LoadDiary
    \/ LoadExit
    \/ CombineMappings
    \/ LoadContact
    \/ JoinAppUsage
    \/ DeduplicateAppUsage
    \/ JoinScreenUnlocks
    \/ DeduplicateScreenUnlocks
    \/ GenerateReport
    \/ MappingStatistics

SpecPull == InitPull /\ [][NextPull]_vars

NextIos ==
    \/ IosBeginStep1
    \/ IosPullScreenshots
    \/ IosPullDiary
    \/ IosPullContactList
    \/ RunOcrStep
    \/ GenerateIosReport
    \/ CheckOutputFiles

SpecIos == InitIos /\ [][NextIos]_vars

NextOrchestrators == NextPull \/ NextIos

SpecOrchestrators == InitOrchestrators /\ [][NextOrchestrators]_vars

NextSend == SendMessage

SpecSend == InitSend /\ [][NextSend]_vars

NextOcr ==
    \/ ProcessSingleImage
    \/ ProcessDirectory
    \/ ProcessDirectoryImage
    \/ ProcessDirectoryReturn

SpecOcr == InitOcr /\ [][NextOcr]_vars

NextRetry == CreateResponseExportRound \/ DownloadUploadedFileRound

SpecRetry == InitRetry /\ [][NextRetry]_vars

\* every request gets its response, so a round that can run does run
SpecRetryLive == SpecRetry /\ WF_vars(NextRetry)

NextReport == DeduplicateJoined \/ ReportJoined

SpecReport == InitReport /\ [][NextReport]_vars

-----------------------------------------------------------------------------
(* Claims *)

\* text of a field as the fingerprints compare it
FieldText(v) == Strip(PyStr(v))

SameFingerprint(a, b) ==
    /\ FieldText(a.RANDOM_ID) = FieldText(b.RANDOM_ID)
    /\ FieldText(a.session_datetime) = FieldText(b.session_datetime)
    /\ FieldText(a.platform) = FieldText(b.platform)
    /\ kind = "app_usage" =>
          /\ FieldText(a.App) = FieldText(b.App)
          /\ FieldText(a.Duration_min) = FieldText(b.Duration_min)

\* indices of the records that are the first of their fingerprint
FirstOccurrences(rows) ==
    {i \in 1..Len(rows) : \A j \in 1..(i - 1) : ~SameFingerprint(rows[j], rows[i])}

RECURSIVE SelectIndices(_, _, _)
SelectIndices(rows, I, i) ==
    IF i > Len(rows) THEN <<>>
    ELSE (IF i \in I THEN <<rows[i]>> ELSE <<>>) \o SelectIndices(rows, I, i + 1)

C2_IdempotentDedup ==
    /\ dpc = "again" => deduplicated_again = deduplicated_data
    /\ dpc \in {"deduplicated", "again"} =>
          \A i, j \in 1..Len(deduplicated_data) :
              i # j => ~SameFingerprint(deduplicated_data[i], deduplicated_data[j])

\* C2 witness: the first run removed a duplicate and the second run changed nothing.
C2_Witness ==
    /\ dpc = "again"
    /\ Len(deduplicated_data) < Len(data)
    /\ Len(deduplicated_data) >= 2
    /\ deduplicated_again = deduplicated_data

\* the non-empty stripped submission IDs a survey row lists
RowIds(row) == NonEmpty(stripped_ids(row))

RowRandomId(row) == Strip(row.RANDOM_ID)

\* a row that names a participant and at least one submission ID
RowValid(row) == RowIds(row) # <<>> /\ RowRandomId(row) # <<>>

SameIdTuple(a, b) == Sorted(RowIds(a)) = Sorted(RowIds(b))

RemoveAt(rows, j) == SubSeq(rows, 1, j - 1) \o SubSeq(rows, j + 1, Len(rows))

ExitRows == IF Exists(exit_file) THEN exit_file.rows ELSE <<>>

\* C3: in the merged map every submission_id of the exit-survey map resolves
\* to the exit-survey RANDOM_ID (one that an exit row reports for it), a
\* submission_id only in the diary map keeps its diary RANDOM_ID, and the
\* merged map has no other keys.
C3_IdentityPrecedence ==
    pc = "load_contact" =>
        /\ DOMAIN submission_mapping =
               DOMAIN diary_submission_mapping \cup DOMAIN exit_submission_mapping
        /\ \A sid \in DOMAIN exit_submission_mapping :
               /\ submission_mapping[sid] = exit_submission_mapping[sid]
               /\ \E i \in 1..Len(ExitRows) :
                      /\ RowRandomId(ExitRows[i]) = submission_mapping[sid]
                      /\ \E k \in 1..Len(RowIds(ExitRows[i])) : RowIds(ExitRows[i])[k] = sid
        /\ \A sid \in DOMAIN diary_submission_mapping \ DOMAIN exit_submission_mapping :
               submission_mapping[sid] = diary_submission_mapping[sid]
        /\ \A i \in 1..Len(ExitRows) :
               RowRandomId(ExitRows[i]) # <<>> =>
                   \A k \in 1..Len(RowIds(ExitRows[i])) :
                       RowIds(ExitRows[i])[k] \in DOMAIN exit_submission_mapping

\* C3 witness: the diary and the exit survey disagree on one submission_id and
\* the merged map has the exit-survey value, next to a diary-only entry.
C3_Witness ==
    /\ pc = "load_contact"
    /\ \E sid \in DOMAIN diary_submission_mapping \cap DOMAIN exit_submission_mapping :
           /\ diary_submission_mapping[sid] # exit_submission_mapping[sid]
           /\ submission_mapping[sid] = exit_submission_mapping[sid]
    /\ \E sid \in DOMAIN diary_submission_mapping \ DOMAIN exit_submission_mapping :
           submission_mapping[sid] = diary_submission_mapping[sid]

DiaryRows == IF Exists(diary_file) THEN diary_file.rows ELSE <<>>

DiaryLoaded == pc \in {"load_exit", "combine", "load_contact"}

\* a row with a RANDOM_ID and IDs whose sorted ID tuple an earlier such row has
RepeatsEarlierTuple(rows, j) ==
    /\ RowValid(rows[j])
    /\ \E i \in 1..(j - 1) : RowValid(rows[i]) /\ SameIdTuple(rows[i], rows[j])

\* C4: a diary row without RANDOM_ID or without submission ID, and a row whose
\* sorted ID tuple an earlier row (with RANDOM_ID) already listed, contribute
\* nothing: the map is the map of the file without that row.  Every other row
\* (its tuple new, overlapping an earlier one or not) maps each of its IDs to
\* its RANDOM_ID when it is read.
C4_DiaryTupleDedup ==
    DiaryLoaded =>
        \A j \in 1..Len(DiaryRows) :
            IF ~RowValid(DiaryRows[j]) \/ RepeatsEarlierTuple(DiaryRows, j)
            THEN diary_submission_mapping =
                     load_diary_unique_tuples(RemoveAt(DiaryRows, j))
            ELSE LET upto == load_diary_unique_tuples(SubSeq(DiaryRows, 1, j)) IN
                 \A k \in 1..Len(RowIds(DiaryRows[j])) :
                     /\ RowIds(DiaryRows[j])[k] \in DOMAIN upto
                     /\ upto[RowIds(DiaryRows[j])[k]] = RowRandomId(DiaryRows[j])

\* C4 witness: the second row repeats the first row's IDs in another order
\* under another RANDOM_ID and left no trace; the third row overlaps the
\* first and mapped both of its IDs.
C4_Witness ==
    /\ DiaryLoaded
    /\ Len(DiaryRows) = 3
    /\ RepeatsEarlierTuple(DiaryRows, 2)
    /\ RowRandomId(DiaryRows[2]) # RowRandomId(DiaryRows[1])
    /\ RowIds(DiaryRows[2]) # RowIds(DiaryRows[1])
    /\ RowValid(DiaryRows[3]) /\ ~RepeatsEarlierTuple(DiaryRows, 3)
    /\ RowRandomId(DiaryRows[3]) # RowRandomId(DiaryRows[1])
    /\ diary_submission_mapping =
           (<<"1">> :> RowRandomId(DiaryRows[3])) @@ (<<"2">> :> RowRandomId(DiaryRows[1]))
           @@ (<<"3">> :> RowRandomId(DiaryRows[3]))

\* the number of days from date a to date b, counted day by day
DaysFrom(a, b) ==
    CHOOSE k \in (0 - MaxEnrollOffset)..MaxSpan :
        IF k >= 0 THEN AddDays(a, k) = b ELSE AddDays(b, 0 - k) = a

WellFormedCase == ~IsNone(given.session) /\ ~IsNone(given.enrollment)

Jan2025(d) == <<2025, 1, d>>

\* C7: when the session timestamp and the enrollment date both parse, the
\* study day is d = (session date - enrollment date) + 1 if 1 <= d <= 28 and
\* no value otherwise, whatever the time of day; enrollment 2025-01-01 maps
\* 2025-01-01 to 1, 2025-01-28 to 28, 2025-01-29 and earlier dates to no
\* value; every recorded study day is in 1..28.
C7_StudyDayMapping ==
    /\ WellFormedCase => spc \in {"start", "parsed", "calculated", "done"}
    /\ (WellFormedCase /\ spc \in {"calculated", "done"}) =>
          LET sdate == given.session.dt[1]
              edate == given.enrollment.dt[1]
              d == DaysFrom(edate, sdate) + 1
          IN  /\ study_day = IF 1 <= d /\ d <= 28 THEN Day(d) ELSE None
              /\ edate = Jan2025(1) =>
                    /\ sdate = Jan2025(1) => study_day = Day(1)
                    /\ sdate = Jan2025(28) => study_day = Day(28)
                    /\ sdate = Jan2025(29) => study_day = None
                    /\ sdate[1] = 2024 => study_day = None
              /\ spc = "done" =>
                    study_days = IF 1 <= d /\ d <= 28 THEN {d} ELSE {}
    /\ \A n \in study_days : n \in 1..28

\* C7 witness: enrollment 2025-01-01 and a session on 2025-01-28 late in the
\* evening, recorded as study day 28.
C7_Witness ==
    /\ spc = "done"
    /\ WellFormedCase
    /\ given.enrollment.dt[1] = Jan2025(1)
    /\ given.session.dt = <<Jan2025(28), <<23, 59, 59>>>>
    /\ study_days = {28}

-----------------------------------------------------------------------------
(* C5: unresolvable records are dropped and counted *)

\* the fields perform_left_join adds to a usage event
JoinFields == {"RANDOM_ID", "Condition", "Platforms", "phoneType", "EnrollmentDate"}

\* the usage event inside a joined record
EventOf(joined_row) == [f \in DOMAIN joined_row \ JoinFields |-> joined_row[f]]

CanonicalIdAt(usage_data, i) == canonical_submission_id(usage_data[i].submission_id)

\* the positions of the events whose canonical submission_id is a key of the map
MappedPositions(usage_data, mapping) ==
    {i \in 1..Len(usage_data) : CanonicalIdAt(usage_data, i) \in DOMAIN mapping}

\* the k-th smallest element of a set of positions
RECURSIVE KthPosition(_, _)
KthPosition(positions, k) ==
    LET least == CHOOSE i \in positions : \A j \in positions : i <= j IN
    IF k = 1 THEN least ELSE KthPosition(positions \ {least}, k - 1)

\* joined holds, in order, exactly the events at the mapped positions, each
\* under the non-empty RANDOM_ID the map gives its canonical submission_id
JoinKeepsExactlyMapped(usage_data, mapping, joined) ==
    LET positions == MappedPositions(usage_data, mapping) IN
    /\ Len(joined) = Cardinality(positions)
    /\ \A k \in 1..Len(joined) :
          LET i == KthPosition(positions, k) IN
          /\ EventOf(joined[k]) = usage_data[i]
          /\ joined[k].RANDOM_ID = Str(mapping[CanonicalIdAt(usage_data, i)])
          /\ joined[k].RANDOM_ID.str # <<>>

\* the non-empty canonical submission ids of the usage data that the map lacks
AbsentFromMap(usage_data, mapping) ==
    {CanonicalIdAt(usage_data, i) : i \in 1..Len(usage_data)} \ (DOMAIN mapping \cup {<<>>})

-----------------------------------------------------------------------------
(* C6: submission-id type drift *)

\* the submission_id cell of a usage file row names the key s of the map: it
\* is s with blanks around it, which is also how a numeric column holds s
CellNamesKey(cell, mapping) == Strip(cell) \in DOMAIN mapping

\* C6: a usage record whose submission_id cell names a key s of the identity
\* map resolves to the RANDOM_ID of s, whether the loader hands the join the
\* cell as an int, as a float or as a string with blanks around it.
C6_TypeDriftResolves ==
    pc = "dedup_app" =>
        \A i \in 1..Len(app_usage_data) :
            CellNamesKey(app_usage_file.rows[i].submission_id, submission_mapping) =>
                lookup_random_id(submission_mapping, CanonicalIdAt(app_usage_data, i))
                    = submission_mapping[Strip(app_usage_file.rows[i].submission_id)]

-----------------------------------------------------------------------------
(* C8: the study-day mapping on missing or unparseable dates *)

ReportAttempted == pc \in {"report_raised", "statistics", "done"}

\* a joined record whose session_datetime is missing or whose EnrollmentDate
\* does not parse
HasUnmappableDate(record) ==
    \/ IsNaT(record.session_datetime)
    \/ IsNone(parse_enrollment_date(record.EnrollmentDate.str))

\* C8: for joined records whose session_datetime is missing or whose
\* EnrollmentDate does not parse, generate_participant_report completes and
\* its report holds the row of the record's participant.
C8_StudyDayNeverRaises ==
    ReportAttempted =>
        \A k \in 1..Len(joined_app_usage) :
            HasUnmappableDate(joined_app_usage[k]) =>
                /\ pc # "report_raised"
                /\ \E r \in 1..Len(participant_report) :
                       participant_report[r].RANDOM_ID = joined_app_usage[k].RANDOM_ID.str


-----------------------------------------------------------------------------
(* C9: duplicate retransmission *)

\* the RANDOM_ID the join gives the i-th loaded usage event, '' when it has none
ResolvedId(usage_data, i) ==
    lookup_random_id(submission_mapping, CanonicalIdAt(usage_data, i))

\* the fingerprints of the decoded AppUsage entries that resolve to a
\* participant: date and time, app, duration and detected platform
AppFingerprintsOf(random_id) ==
    {<<app_usage_records[i].session_datetime.str, FieldText(app_usage_records[i].App),
       FieldText(app_usage_records[i].Duration_min), app_usage_records[i].platform.str>> :
        i \in {j \in 1..Len(app_usage_records) :
                   ResolvedId(app_usage_data, j) = random_id}}

UnlockFingerprintsOf(random_id) ==
    {<<screen_unlocks_records[i].session_datetime.str,
       screen_unlocks_records[i].platform.str>> :
        i \in {j \in 1..Len(screen_unlocks_records) :
                   ResolvedId(screen_unlocks_data, j) = random_id}}

ReportProduced == pc \in {"statistics", "done"}

-----------------------------------------------------------------------------
(* C10: decoder completeness *)

\* a payload that is a list of single-key objects whose values are lists of
\* entry objects
ListOfSingleKeyObjects(payload) ==
    /\ IsList(payload)
    /\ \A i \in 1..Len(payload.list) :
          /\ IsObject(payload.list[i])
          /\ Cardinality(DOMAIN payload.list[i].object) = 1
          /\ \A key \in DOMAIN payload.list[i].object :
                /\ IsList(payload.list[i].object[key])
                /\ \A e \in 1..Len(payload.list[i].object[key].list) :
                       IsObject(payload.list[i].object[key].list[e])

\* the entries of every list element of the payload keyed by key, in order
RECURSIVE EntriesKeyed(_, _)
EntriesKeyed(items, key) ==
    IF items = <<>> THEN <<>>
    ELSE (IF key \in DOMAIN Head(items).object
          THEN Head(items).object[key].list ELSE <<>>)
         \o EntriesKeyed(Tail(items), key)

\* the submission_id and the entry of every event the rows hold under key
RECURSIVE EventsKeyed(_, _)
EventsKeyed(rows, key) ==
    IF rows = <<>> THEN <<>>
    ELSE LET entries == EntriesKeyed(Head(rows).json_data.list, key) IN
         [e \in 1..Len(entries) |-> <<Head(rows).submission_id, entries[e].object>>]
         \o EventsKeyed(Tail(rows), key)

\* the submission_id, date-time and app of the events a list of records holds
EmittedApp(records) ==
    [i \in 1..Len(records) |->
        <<records[i].submission_id.str, records[i].session_datetime.str, records[i].App>>]

ExpectedApp(events) ==
    [i \in 1..Len(events) |->
        <<events[i][1],
          create_session_datetime_string(entry_get(events[i][2], "Date"),
                                         entry_get(events[i][2], "Time")),
          entry_get(events[i][2], "App")>>]

Decoded == pc # "parse" /\ Exists(uploads_file)

\* C10: for upload rows whose payloads are lists of single-key objects, the
\* decoder emits, in order, one AppUsage event per entry of every list
\* element keyed AppUsage and one ScreenUnlocks event per entry of every list
\* element keyed ScreenUnlocks, also when a key occurs in more than one list
\* element.
C10_DecoderCompleteness ==
    (/\ Decoded
     /\ \A i \in 1..Len(uploads_file.rows) :
            ListOfSingleKeyObjects(uploads_file.rows[i].json_data)) =>
        /\ EmittedApp(app_usage_records)
               = ExpectedApp(EventsKeyed(uploads_file.rows, "AppUsage"))
        /\ Len(screen_unlocks_records)
               = Len(EventsKeyed(uploads_file.rows, "ScreenUnlocks"))

-----------------------------------------------------------------------------
(* C11: decode errors of a row are isolated and counted *)

\* decoding the payload fails: a blob json.loads rejects, a payload that is
\* no list of objects, or an AppUsage / ScreenUnlocks entry that is no object
DecodeFails(payload) ==
    \/ IsMalformed(payload)
    \/ ~IsList(payload)
    \/ \E i \in 1..Len(payload.list) :
          \/ ~IsObject(payload.list[i])
          \/ \E key \in DOMAIN payload.list[i].object \cap {"AppUsage", "ScreenUnlocks"} :
                /\ IsList(payload.list[i].object[key])
                /\ \E e \in 1..Len(payload.list[i].object[key].list) :
                       ~IsObject(payload.list[i].object[key].list[e])

\* the rows whose decoding does not fail, in row order
RECURSIVE DecodableRows(_)
DecodableRows(rows) ==
    IF rows = <<>> THEN <<>>
    ELSE (IF DecodeFails(Head(rows).json_data) THEN <<>> ELSE <<Head(rows)>>)
         \o DecodableRows(Tail(rows))

\* C11: after the decoder has read the uploads, the error counter holds one
\* for each row whose decoding fails (a malformed JSON blob included), the
\* other rows are the processed ones, the failing rows emit no event and every
\* entry of every other row is emitted in row order, an entry without a
\* parseable Date/Time with the session_datetime "".
C11_DecodeErrorsIsolated ==
    Decoded =>
        /\ error_count = Len(uploads_file.rows) - Len(DecodableRows(uploads_file.rows))
        /\ processed_count = Len(DecodableRows(uploads_file.rows))
        /\ EmittedApp(app_usage_records)
               = ExpectedApp(EventsKeyed(DecodableRows(uploads_file.rows), "AppUsage"))
        /\ Len(screen_unlocks_records)
               = Len(EventsKeyed(DecodableRows(uploads_file.rows), "ScreenUnlocks"))

-----------------------------------------------------------------------------
(* C12: the end-to-end scenario *)

\* main has ended: by sys.exit(1), by an exception, or after its statistics
MainEnded == pc \in {"exit_1", "crashed", "report_raised", "done"}

\* the outcome of the scenario: one joined app-usage record, of P001, on study
\* day 1, and one report row of P001 with one submission and one donation
ScenarioOutcome ==
    /\ pc = "done"
    /\ Len(joined_app_usage) = 1
    /\ joined_app_usage[1].RANDOM_ID.str = ScenarioRandomId
    /\ record_study_day(joined_app_usage[1]) = Day(1)
    /\ Len(participant_report) = 1
    /\ participant_report[1].RANDOM_ID = ScenarioRandomId
    /\ participant_report[1].num_submission_ids = 1
    /\ participant_report[1].num_unique_donations = 1
    /\ participant_report[1].study_days_with_data = {1}

\* C12: main run on the one upload row of submission 42 (one AppUsage entry of
\* 2025-03-01 10:00, Instagram, 15 minutes), the diary row mapping 42 to P001
\* and the contact row of P001 enrolled on 2025-03-01 ends with exactly one
\* joined app-usage record, of P001 and on study day 1, and with one report row
\* for P001 with num_submission_ids = 1 and num_unique_donations = 1.
C12_EndToEnd ==
    (MainEnded /\ uploads_file = File(<<ScenarioUpload>>)) => ScenarioOutcome

-----------------------------------------------------------------------------
(* C13: an OCR response without apps *)

\* a step that is a process_single_image call
AnalysisCall == ProcessSingleImage \/ ProcessDirectoryImage

\* the model answered with JSON whose apps list is empty
ZeroApps(response) ==
    /\ "parsed" \in DOMAIN response
    /\ dict_get(response.parsed, "apps", <<>>) = <<>>

\* C13: a process_single_image call whose model response has an empty apps
\* list ends in its ScreenshotAnalysisError handler, the error having reached
\* the caller of analyze_screenshot; it returns no result, writes no
\* *_analysis.json file, and a directory run counts the image as failed.
C13_ZeroAppsRaises ==
    [][(AnalysisCall /\ call'.called /\ ZeroApps(call'.response)) =>
           /\ call'.handler = "except ScreenshotAnalysisError"
           /\ IsNone(call'.result)
           /\ artifacts' = artifacts
           /\ ocr_pc = "directory" => results'.failed = results.failed + 1]_vars

-----------------------------------------------------------------------------
(* C14: skipping the images already analysed *)

\* the file process_single_image looks for, for the image of a call
ArtifactOf(c) == expected_output_file(c.image, c.output_dir)

\* a file json.load reads
Readable(content) == "json" \in DOMAIN content

\* C14: a process_single_image call with saving on and reprocess_existing
\* false, for an image whose analysis file exists and is readable JSON, does
\* not call the model, leaves every file as it is and returns the stored
\* analysis; so a call with saving on that calls the model although the
\* readable file exists is a call with reprocess_existing true.
C14_SkipExisting ==
    [][(AnalysisCall /\ call'.save_json /\ Readable(artifacts[ArtifactOf(call')])) =>
           /\ ~call'.reprocess_existing =>
                  /\ ~call'.called
                  /\ artifacts' = artifacts
                  /\ call'.result = artifacts[ArtifactOf(call')].json
           /\ call'.called => call'.reprocess_existing]_vars

\* C14 as stated, for any file that exists where the analysis is expected
C14_SkipWheneverFileExists ==
    [][(AnalysisCall /\ call'.save_json /\ path_exists(artifacts[ArtifactOf(call')])) =>
           /\ ~call'.reprocess_existing =>
                  /\ ~call'.called
                  /\ artifacts' = artifacts
                  /\ call'.result = artifacts[ArtifactOf(call')].json
           /\ call'.called => call'.reprocess_existing]_vars

\* an image analysed by an earlier call is skipped: the call returned the
\* analysis of this image from its file, without the model
C14_Witness ==
    /\ call.handler = "skipped"
    /\ ~call.called
    /\ call.save_json
    /\ ~call.reprocess_existing
    /\ call.result.metadata.source_image = call.image
    /\ artifacts[ArtifactOf(call)] = JsonFile(call.result)

-----------------------------------------------------------------------------
(* C15: the skip cache and the identity of the image *)

\* C15: the analysis a call returns from an existing file is the analysis of
\* the image of the call, next to the image and in an output directory: no
\* image is skipped because of the file of another image.
C15_CacheKeyedByImage ==
    call.handler = "skipped" => call.result.metadata.source_image = call.image

-----------------------------------------------------------------------------
(* C16: the bound of the rate-limit retry *)

AllRateLimited(statuses) == \A i \in 1..Len(statuses) : statuses[i] = 429

\* the responses before the last one
Earlier(statuses) == SubSeq(statuses, 1, Len(statuses) - 1)

RetryBounded ==
    /\ Len(responses) <= max_retries + 1
    /\ outcome = "running" =>
           /\ AllRateLimited(responses)
           /\ Len(responses) <= max_retries
           /\ files_written = 0
    /\ outcome = "return" =>
           /\ responses # <<>>
           /\ response_ok(responses[Len(responses)])
           /\ AllRateLimited(Earlier(responses))
           /\ files_written = IF operation = "download_uploaded_file" THEN 1 ELSE 0
    /\ outcome = "raise HTTPError (status)" =>
           /\ responses # <<>>
           /\ responses[Len(responses)] # 429
           /\ ~response_ok(responses[Len(responses)])
           /\ AllRateLimited(Earlier(responses))
           /\ files_written = 0
    /\ outcome = "raise HTTPError (max retries)" =>
           /\ Len(responses) = max_retries + 1
           /\ AllRateLimited(responses)
           /\ files_written = 0

\* C16: download_uploaded_file and create_response_export send at most
\* max_retries + 1 = 6 requests; they return at the first response that is
\* neither a 429 nor an error (the download having written its file once),
\* raise at the first error response that is no 429, raise an HTTPError after
\* the sixth 429 in a row, send nothing after any of these, and always end.
C16_RetryBound == []RetryBounded /\ <>(outcome # "running")

\* six rate-limited requests, then the HTTPError
C16_Witness ==
    /\ outcome = "raise HTTPError (max retries)"
    /\ Len(responses) = max_retries + 1
    /\ AllRateLimited(responses)

-----------------------------------------------------------------------------
(* C17: the backoff delays *)

\* the un-jittered wait before the n-th retry: 1 s, doubled for each further
\* retry, capped at 60 s
BaseWait(n) == Min(base_delay * Power2(n - 1), max_delay)

\* C17: the wait slept after the n-th 429 in a row is the exponential base
\* of the n-th retry (1 s, 2 s, 4 s, ... capped at 60 s) plus a jitter of 10%
\* to 30% of it, and never more than 60 s.
C17_BackoffDelays ==
    \A n \in 1..Len(waits) :
        /\ waits[n] <= max_delay
        /\ \/ waits[n] = max_delay
           \/ /\ 10 * waits[n] >= 11 * BaseWait(n)
              /\ 10 * waits[n] <= 13 * BaseWait(n)

-----------------------------------------------------------------------------
(* C18: the unique donations and the fingerprints of the deduplicators *)

\* how many records of a list belong to a participant
RecordsOf(records, random_id) ==
    Cardinality({k \in 1..Len(records) : records[k].RANDOM_ID.str = random_id})

\* C18: in the report made of any lists of joined records, a participant's
\* num_unique_donations is the number of the participant's records the
\* deduplicators keep, app usage plus screen unlocks, and uniqueness_ratio is
\* num_unique_donations over total_donation_records.
C18_UniqueDonations ==
    pc = "reported" =>
        \A r \in 1..Len(participant_report) :
            /\ participant_report[r].num_unique_donations
                   = RecordsOf(deduplicated_app_usage, participant_report[r].RANDOM_ID)
                     + RecordsOf(deduplicated_screen_unlocks,
                                 participant_report[r].RANDOM_ID)
            /\ participant_report[r].total_donation_records
                   = RecordsOf(joined_app_usage, participant_report[r].RANDOM_ID)
                     + RecordsOf(joined_screen_unlocks, participant_report[r].RANDOM_ID)
            /\ participant_report[r].uniqueness_ratio
                   = <<participant_report[r].num_unique_donations,
                       participant_report[r].total_donation_records>>

-----------------------------------------------------------------------------
(* C19: data_type and the rows of the report *)

RandomIdsOf(records) == {records[k].RANDOM_ID.str : k \in 1..Len(records)}

\* the data_type the kinds of a participant's records give
KindOf(random_id) ==
    IF random_id \in RandomIdsOf(joined_app_usage)
    THEN (IF random_id \in RandomIdsOf(joined_screen_unlocks) THEN "mixed"
          ELSE "app_usage")
    ELSE "screen_unlocks"

\* C19: the report has one row for each RANDOM_ID of the joined records and
\* no other row, in ascending order of RANDOM_ID, and the data_type of a row
\* is app_usage with app-usage records only, screen_unlocks with
\* screen-unlock records only, and mixed with both.
C19_DataTypeFold ==
    pc = "reported" =>
        /\ {participant_report[r].RANDOM_ID : r \in 1..Len(participant_report)}
               = RandomIdsOf(joined_app_usage) \cup RandomIdsOf(joined_screen_unlocks)
        /\ \A r \in 1..Len(participant_report) :
               participant_report[r].data_type = KindOf(participant_report[r].RANDOM_ID)
        /\ \A r \in 1..Len(participant_report) :
               \A later \in (r + 1)..Len(participant_report) :
                   StrLess(participant_report[r].RANDOM_ID,
                           participant_report[later].RANDOM_ID)

\* a report with a row of each data_type
C19_Witness ==
    /\ pc = "reported"
    /\ Len(participant_report) = 3
    /\ participant_report[1].data_type = "mixed"
    /\ participant_report[2].data_type = "app_usage"
    /\ participant_report[3].data_type = "screen_unlocks"

-----------------------------------------------------------------------------
(* C20: the contact fields of the join *)

ContactFields == {"Condition", "Platforms", "phoneType", "EnrollmentDate"}

\* the rows of the contact file with this RANDOM_ID
ContactRowsOf(file, random_id) ==
    IF ~Exists(file) THEN {}
    ELSE {i \in 1..Len(file.rows) : Strip(file.rows[i].RANDOM_ID) = random_id}

\* the contact fields of a joined record are those of the contact row of its
\* RANDOM_ID (the last such row), or empty strings without such a row
ContactFieldsJoined(joined_row, file) ==
    /\ JoinFields \subseteq DOMAIN joined_row
    /\ IF ContactRowsOf(file, joined_row.RANDOM_ID.str) = {}
       THEN \A field \in ContactFields : joined_row[field] = Str(<<>>)
       ELSE LET i == CHOOSE last \in ContactRowsOf(file, joined_row.RANDOM_ID.str) :
                         \A other \in ContactRowsOf(file, joined_row.RANDOM_ID.str) :
                             other <= last
            IN  \A field \in ContactFields : joined_row[field] = Str(file.rows[i][field])

\* C20: every record perform_left_join emits has RANDOM_ID, Condition,
\* Platforms, phoneType and EnrollmentDate; the four contact fields are those
\* of the contact row of the record's RANDOM_ID, or empty strings when the
\* contact list has no such row, and the record is emitted all the same; the
\* fields of the usage record are carried over as they are and the usage data
\* are as they were loaded.
C20_ContactLeftJoin ==
    pc = "dedup_app" =>
        /\ JoinKeepsExactlyMapped(app_usage_data, submission_mapping, joined_app_usage)
        /\ \A k \in 1..Len(joined_app_usage) :
               ContactFieldsJoined(joined_app_usage[k], contact_file)
        /\ Returned(app_usage_data) = load_activitywatch_data(app_usage_file.rows)

\* a join that emitted a record with the fields of its contact row and a
\* record of a participant the contact list does not have
C20_Witness ==
    /\ pc = "dedup_app"
    /\ \E k \in 1..Len(joined_app_usage) :
           /\ ContactRowsOf(contact_file, joined_app_usage[k].RANDOM_ID.str) # {}
           /\ joined_app_usage[k].Condition.str # <<>>
    /\ \E k \in 1..Len(joined_app_usage) :
           /\ ContactRowsOf(contact_file, joined_app_usage[k].RANDOM_ID.str) = {}
           /\ joined_app_usage[k].Condition = Str(<<>>)

-----------------------------------------------------------------------------
(* C21: the layouts parse_enrollment_date reads *)

\* what the cell made of a date in a layout says: the date and the time as
\* they were written, but month first where a day-first date is a date
\* month first as well
ReadAs(written) ==
    DateTime(IF written.layout \in {"dmy", "dmy_time"} /\ written.date[3] <= 12
             THEN <<written.date[1], written.date[3], written.date[2]>>
             ELSE written.date,
             IF HasTime(written.layout) THEN written.time ELSE <<0, 0, 0>>)

\* C21: parse_enrollment_date reads a date written as YYYY-MM-DD, MM/DD/YYYY
\* or DD/MM/YYYY, with or without a trailing HH:MM:SS, as that date and time
\* (month first when the string is a date both ways), and returns None for
\* an empty string and for a string of none of the layouts.
C21_EnrollmentLayouts ==
    spc # "start" =>
        enrollment_date = IF IsNone(given.enrollment) THEN None
                          ELSE ReadAs(given.enrollment)

-----------------------------------------------------------------------------
(* C22: which failures main continues after and which end the run *)

\* without an exit survey file the map is the diary's, and without a contact
\* list file the joined records carry empty contact fields
PartialData ==
    /\ pc \in {"load_contact", "load_app", "dedup_app", "done"} /\ ~Exists(exit_file)
           => submission_mapping = diary_submission_mapping
    /\ pc = "done" /\ ~Exists(contact_file)
           => \A k \in 1..Len(joined_app_usage) :
                  \A field \in {"Condition", "Platforms", "phoneType", "EnrollmentDate"} :
                      joined_app_usage[k][field] = Str(<<>>)

\* the steps of main at an exit survey or a contact list that could not be
\* pulled or is not there, at a failed ActivityWatch pull, and at a diary
\* file that is not there when the join begins
ContinueOrAbortStep ==
    /\ pc = "pull_exit" => pc' = "pull_contact"
    /\ pc = "pull_contact" => pc' = after_pull(args)
    /\ pc = "load_exit" => pc' = "combine"
    /\ pc = "load_contact" => pc' = "load_app"
    /\ pc = "pull_activitywatch" /\ pull_success'["ActivityWatch data"] = "failed"
           => pc' = "exit_1"
    /\ pc = "load_diary" /\ ~Exists(diary_file)
           => pc' = "exit_1" /\ joined_app_usage' = <<>> /\ participant_report' = <<>>

\* C22: a failed or missing contact list or exit survey never stops main,
\* which goes on to the join and the report with empty contact fields or the
\* diary's map alone; a failed ActivityWatch pull ends the run with exit code
\* 1; and when no diary file exists as the join begins, main ends the run
\* with an error message and exit code 1, not with an exception, before a
\* joined file or a report is written.
C22_ContinueOrAbort == []PartialData /\ [][ContinueOrAbortStep]_vars

-----------------------------------------------------------------------------
(* C23: the timeouts of the child processes of the orchestrators *)

\* the steps of the OCR pipeline in their order
OcrOrder ==
    <<"gemini_screenshot_analyzer.py", "participant_aggregator.py", "summary_to_csv.py",
      "app_game_classifier.py">>

\* run_ocr_analysis started its steps in order, each after the steps before
\* it exited with 0, and returned False at the first step that did not and
\* True after the fourth
OcrInOrder ==
    /\ Len(ocr_steps) <= Len(OcrOrder)
    /\ \A k \in 1..Len(ocr_steps) :
           /\ ocr_steps[k].cmd = OcrOrder[k]
           /\ k < Len(ocr_steps) => ocr_steps[k].child = "exit_0"
    /\ ocr_success = "False"
           <=> ocr_steps # <<>> /\ ocr_steps[Len(ocr_steps)].child # "exit_0"
    /\ ocr_success = "True"
           <=> Len(ocr_steps) = Len(OcrOrder) /\ ocr_steps[Len(ocr_steps)].child = "exit_0"
    /\ pc \in {"ios_report", "ios_check", "ios_return_0", "ios_return_1"} /\ ~args.skip_ocr
           => ocr_success \in {"True", "False"}

\* the orchestrator's step at a child that does not exit: the stage returns
\* False and the orchestrator is at its next stage
TimeoutStep ==
    /\ child' = "never_exits" /\ pull_success' # pull_success
           => /\ \A k \in DOMAIN pull_success :
                     pull_success'[k] # pull_success[k] => pull_success'[k] \in {"False", "failed"}
              /\ pc' \in {"ios_pull_2", "ios_pull_3", "ios_ocr", "ios_report",
                          "pull_diary", "pull_exit", "pull_contact", "parse",
                          "find_files", "exit_1"}
    /\ child' = "never_exits" /\ ocr_steps' # ocr_steps
           => ocr_success' = "False" /\ pc' = "ios_report"

\* C23: no subprocess.run of the orchestrators waits for ever for its child:
\* each has a timeout; at a child that does not exit in time the stage
\* function returns False and the orchestrator goes on to its next stage;
\* and run_ocr_analysis runs its four steps in order, each only after the
\* steps before it exited with 0, and returns False at the first step that
\* fails or times out without running the later steps.
C23_TimeoutsRecoverable == [](pc # "blocked" /\ OcrInOrder) /\ [][TimeoutStep]_vars

-----------------------------------------------------------------------------
(* C24: the message send_message creates *)

\* among the last 10 messages the conversation had, the newest that the bot
\* did not write is less than 24 hours old
SessionOpenInWindow(before) ==
    \E i \in 1..Len(before) :
        /\ i <= 10
        /\ before[i].author # "user01"
        /\ \A j \in 1..(i - 1) : before[j].author = "user01"
        /\ before[i].age < 24

\* C24: a call of send_message creates exactly one message in the
\* conversation: a session message with a body if and only if the message
\* list was fetched and, among the last 10 messages, the newest not written
\* by the bot is less than 24 hours old, and the template message with a
\* content_sid otherwise.
C24_SessionAwareMessage ==
    sent.called =>
        /\ Len(sent.created) = 1
        /\ Len(conversation) = Len(sent.before) + 1
        /\ conversation[1].form =
               IF sent.list_ok /\ SessionOpenInWindow(sent.before) THEN "body"
               ELSE "content_sid"

-----------------------------------------------------------------------------
(* The participant aggregator: ocr/participant_aggregator.py *)

\* the response folders of one participant directory hold the images
participant_images == Images

\* the analysis an earlier run saved for the image next to the path
StoredAnalysis(path) ==
    analyze_screenshot(
        CHOOSE image \in Images :
            expected_output_file(image, None) = path /\ image.suffix = ".png",
        JsonResponse([device_type |-> "iphone", device_type_confidence |-> 95,
                      date_of_screenshot |-> "2025-03-01", apps |-> <<>>])).returned

\* the *_analysis.json files next to the images
AnalysisPaths == {expected_output_file(image, None) : image \in participant_images}

\* discover_participant_images: the images of the response folders that
\* have no file {stem}_analysis.json next to them
discover_participant_images(store) ==
    {image \in participant_images : ~path_exists(store[expected_output_file(image, None)])}

ParticipantStats(total_images) ==
    [total_images |-> total_images, processed_images |-> 0, successful_images |-> 0,
     failed_images |-> 0]

\* the command line process_participant_images starts for an image: main of
\* gemini_screenshot_analyzer.py on a file, with no --output-dir, no
\* --no-save and no --reprocess-existing
analyzer_command(store, image_path, response) ==
    process_single_image(store, image_path, None, TRUE, FALSE, response)

\* process_participant_images: the statistics after one subprocess.run
count_image(stats, returncode) ==
    [stats EXCEPT !.processed_images = @ + 1,
                  !.successful_images = IF returncode = 0 THEN @ + 1 ELSE @,
                  !.failed_images = IF returncode = 0 THEN @ ELSE @ + 1]

\* process_participant_images up to its loop; skip_existing is a parameter
\* the function does not read
process_participant_images(store, skip_existing) ==
    [pc |-> IF discover_participant_images(store) = {} THEN "return" ELSE "loop",
     skip_existing |-> skip_existing,
     before |-> store,
     images_to_process |-> discover_participant_images(store),
     started |-> {},
     stats |-> ParticipantStats(Cardinality(discover_participant_images(store)))]

\* a run of participant_aggregator.py about to process a participant whose
\* images have no analysis, a saved analysis or a file json.load does not
\* read next to them; --reprocess-existing given or not
InitAggregator ==
    /\ \E found \in [AnalysisPaths -> {"none", "json", "unreadable"}] :
           artifacts = [path \in ArtifactPaths |->
                           IF path \notin AnalysisPaths \/ found[path] = "none" THEN NoFile
                           ELSE IF found[path] = "json" THEN JsonFile(StoredAnalysis(path))
                           ELSE Unreadable]
    /\ \E reprocess_existing \in BOOLEAN :
           aggregation = [pc |-> "start", skip_existing |-> ~reprocess_existing]
    /\ call = NoCall
    /\ image_files = {}
    /\ results = new_results(0)
    /\ run_args = NoRun
    /\ ocr_pc = "idle"
    /\ RetryIdle
    /\ PullIdle
    /\ IosIdle
    /\ TwilioIdle
    /\ job = [pc |-> "idle"]
    /\ classifier = [pc |-> "idle"]
    /\ DedupIdle
    /\ MainIdle
    /\ CalendarIdle
    /\ JoinIdle
    /\ DecodeIdle

AggregatorStepKeeps ==
    UNCHANGED <<call, image_files, results, run_args, ocr_pc, retryVars, pullVars, iosVars,
                twilioVars, jobVars, classifierVars, dedupVars, mainVars, calendarVars, joinVars, decodeVars>>

\* process_all_participants calls process_participant_images with the
\* skip_existing of main (line 704)
ProcessParticipantImages ==
    /\ aggregation.pc = "start"
    /\ aggregation' = process_participant_images(artifacts, aggregation.skip_existing)
    /\ UNCHANGED artifacts
    /\ AggregatorStepKeeps

\* one round of the loop: the command line on the image exits with 0 when
\* process_single_image gave a result and with 1 when not, or is killed at
\* the timeout of 120 seconds; the images come in the order of iterdir,
\* which is any order
ProcessParticipantImage ==
    /\ aggregation.pc = "loop"
    /\ aggregation.images_to_process # {}
    /\ \E image_path \in aggregation.images_to_process :
           \/ \E response \in ModelResponses :
                  LET done == analyzer_command(artifacts, image_path, response) IN
                  /\ artifacts' = done.artifacts
                  /\ aggregation' =
                         [aggregation EXCEPT
                             !.images_to_process = @ \ {image_path},
                             !.started = @ \cup {image_path},
                             !.stats = count_image(@, IF IsNone(done.result) THEN 1 ELSE 0)]
           \/ /\ UNCHANGED artifacts
              /\ aggregation' =
                     [aggregation EXCEPT
                         !.images_to_process = @ \ {image_path},
                         !.started = @ \cup {image_path},
                         !.stats = count_image(@, 1)]
    /\ AggregatorStepKeeps

\* process_participant_images returns its statistics
ProcessParticipantReturn ==
    /\ aggregation.pc = "loop"
    /\ aggregation.images_to_process = {}
    /\ aggregation' = [aggregation EXCEPT !.pc = "return"]
    /\ UNCHANGED artifacts
    /\ AggregatorStepKeeps

NextAggregator ==
    \/ ProcessParticipantImages
    \/ ProcessParticipantImage
    \/ ProcessParticipantReturn

SpecAggregator == InitAggregator /\ [][NextAggregator]_vars

-----------------------------------------------------------------------------
(* C25: --reprocess-existing of the participant aggregator *)

\* the images that had a *_analysis.json next to them when the run began
HadAnalysis(before) ==
    {image \in participant_images : path_exists(before[expected_output_file(image, None)])}

\* C25: a run of the participant aggregator with --reprocess-existing starts
\* the analysis of every image of the participant, also of those that have an
\* analysis JSON already; a run without it starts the analysis of exactly the
\* images that have none.
C25_ReprocessExisting ==
    aggregation.pc = "return" =>
        aggregation.started =
            IF aggregation.skip_existing
            THEN participant_images \ HadAnalysis(aggregation.before)
            ELSE participant_images

-----------------------------------------------------------------------------
(* The reminder job: run_job of twilio_scheduler.py *)

\* the module constant: messages are sent
DRY_RUN == FALSE

MaxContacts == 2

\* a contact as list_all_contacts returns it: the keys of the Qualtrics
\* contact with the two embedded fields; the enrollment is absent or a
\* YYYY-MM-DD date so many days before today
Enrolled(days_ago) == [days_ago |-> days_ago]

QualtricsContact(phone, enrollment) == [phone |-> phone, EnrollmentDate |-> enrollment]

\* a British and a US number that are valid, and a string that is none
Phones == {"+447352000107", "+12025550123", "0000"}

Enrollments == {None, Enrolled(0), Enrolled(1), Enrolled(27), Enrolled(28)}

QualtricsContacts == {QualtricsContact(phone, enrollment) : phone \in Phones, enrollment \in Enrollments}

\* normalize_phone_number: the E.164 form of a valid number, else None
normalize_phone_number(raw_phone) ==
    IF raw_phone \in {"+447352000107", "+12025550123"} THEN [e164 |-> raw_phone] ELSE None

\* pull_contacts on one contact: elapsed_days and next_survey
pull_contact(contact) ==
    IF IsNone(contact.EnrollmentDate)
    THEN contact @@ [elapsed_days |-> None, next_survey |-> None]
    ELSE contact @@ [elapsed_days |-> contact.EnrollmentDate,
                     next_survey |-> IF /\ 1 <= contact.EnrollmentDate.days_ago
                                        /\ contact.EnrollmentDate.days_ago < 28
                                     THEN [scheduled |-> TRUE] ELSE None]

pull_contacts(contacts) == [k \in DOMAIN contacts |-> pull_contact(contacts[k])]

\* phone.startswith("+1") on the numbers of Phones
startswith_plus_1(phone) == phone = "+12025550123"

\* the template run_job takes for a contact: the utility invite for a US
\* number on day 1 without an open session, else get_template_and_variables
\* with its random.choice
template_for(contact, phone, session_open, invitation_type) ==
    IF contact.elapsed_days.days_ago = 1
    THEN IF startswith_plus_1(phone) /\ ~session_open THEN "BASIC_INVITE"
         ELSE "DAY_ONE_INVITE"
    ELSE IF invitation_type = "basic" THEN "BASIC_INVITE" ELSE "REWARD_INVITE"

\* one round of the loop of run_job on a contact that is not skipped, from
\* get_or_create_conversation_for on: the job with the attempt and the row
\* added, or with the exception that leaves the function
job_round(j, contact, phone, conversation_ok, template, send_ok) ==
    IF ~conversation_ok
    THEN [j EXCEPT !.pc = "raised", !.raised = "TwilioRestException"]
    ELSE IF "formatted_text" \notin DOMAIN contact
    THEN [j EXCEPT !.pc = "raised", !.raised = "KeyError"]
    ELSE [j EXCEPT
             !.i = @ + 1,
             !.attempts = IF DRY_RUN THEN @ ELSE Append(@, j.i),
             !.rows = Append(@, [contact |-> j.i, phone |-> phone,
                                 template_sid |-> template,
                                 formatted_text |-> contact.formatted_text,
                                 dry_run |-> DRY_RUN,
                                 status |-> IF DRY_RUN \/ send_ok THEN "QUEUED"
                                            ELSE "FAILED"])]

NoJob == [pc |-> "idle"]

JobIdle == job = NoJob

\* run_job about to pull the contacts of the mailing list; the log file
\* scheduled_messages.csv has no rows yet
InitJob ==
    /\ \E n \in 0..MaxContacts : \E contacts \in [1..n -> QualtricsContacts] :
           job = [pc |-> "pull_contacts", contacts |-> contacts, i |-> 1, rows |-> <<>>,
                  attempts |-> <<>>, scheduled_messages |-> <<>>, raised |-> "none"]
    /\ OcrIdle
    /\ RetryIdle
    /\ PullIdle
    /\ IosIdle
    /\ TwilioIdle
    /\ AggIdle
    /\ classifier = [pc |-> "idle"]
    /\ DedupIdle
    /\ MainIdle
    /\ CalendarIdle
    /\ JoinIdle
    /\ DecodeIdle

JobStepKeeps ==
    UNCHANGED <<ocrVars, retryVars, pullVars, iosVars, twilioVars, aggVars, classifierVars,
                dedupVars,
                mainVars, calendarVars, joinVars, decodeVars>>

\* run_job up to its loop: no contacts, no job
PullContacts ==
    /\ job.pc = "pull_contacts"
    /\ job' = [job EXCEPT !.pc = IF job.contacts = <<>> THEN "return" ELSE "loop",
                          !.contacts = pull_contacts(job.contacts)]
    /\ JobStepKeeps

\* one round of the loop of run_job
RunJobContact ==
    /\ job.pc = "loop"
    /\ job.i <= Len(job.contacts)
    /\ LET contact == job.contacts[job.i]
           normalized == normalize_phone_number(contact.phone)
       IN  IF IsNone(contact.next_survey) \/ IsNone(normalized)
           THEN job' = [job EXCEPT !.i = @ + 1]
           ELSE \E conversation_ok \in BOOLEAN, session_open \in BOOLEAN,
                   invitation_type \in {"basic", "reward"}, send_ok \in BOOLEAN :
                    job' = job_round(job, contact, normalized.e164, conversation_ok,
                                     template_for(contact, normalized.e164, session_open,
                                                  invitation_type),
                                     send_ok)
    /\ JobStepKeeps

\* after the loop the rows are appended to scheduled_messages.csv
WriteLog ==
    /\ job.pc = "loop"
    /\ job.i > Len(job.contacts)
    /\ job' = [job EXCEPT !.pc = "return", !.scheduled_messages = @ \o job.rows]
    /\ JobStepKeeps

NextJob ==
    \/ PullContacts
    \/ RunJobContact
    \/ WriteLog

SpecJob == InitJob /\ [][NextJob]_vars

-----------------------------------------------------------------------------
(* C26: run_job processes every eligible contact *)

\* the contact has an EnrollmentDate 1 to 27 days ago and a valid phone
Eligible(contact) ==
    /\ ~IsNone(contact.EnrollmentDate)
    /\ contact.EnrollmentDate.days_ago \in 1..27
    /\ ~IsNone(normalize_phone_number(contact.phone))

Occurrences(seq, P(_)) == Cardinality({k \in DOMAIN seq : P(seq[k])})

\* C26: when run_job has ended, every eligible contact of the pull has
\* exactly one send attempt (none when DRY_RUN) and exactly one row in
\* scheduled_messages.csv with status QUEUED or FAILED, whatever happened to
\* the contacts before it, and every other contact has no attempt and no row.
C26_EveryEligibleContact ==
    job.pc \in {"return", "raised"} =>
        \A k \in DOMAIN job.contacts :
            LET IsAttempt(a) == a = k
                IsRow(row) == row.contact = k /\ row.status \in {"QUEUED", "FAILED"}
            IN  IF Eligible(job.contacts[k])
                THEN /\ Occurrences(job.attempts, IsAttempt) = IF DRY_RUN THEN 0 ELSE 1
                     /\ Occurrences(job.scheduled_messages, IsRow) = 1
                ELSE /\ Occurrences(job.attempts, IsAttempt) = 0
                     /\ Occurrences(job.scheduled_messages, IsRow) = 0

-----------------------------------------------------------------------------
(* C27: the iOS participant report *)

\* the RANDOM_IDs that the diary identity data names and the contact list has
IosParticipants(diary_data, contacts) ==
    {diary_data[submission_id] : submission_id \in DOMAIN diary_data} \cap DOMAIN contacts

\* the row is the one of the participant: the contact fields and the
\* submission IDs the participant reported
IosRowOf(row, random_id, diary_data, contacts) ==
    /\ row.RANDOM_ID = random_id
    /\ row.EnrollmentDate = contacts[random_id].EnrollmentDate
    /\ row.Condition = contacts[random_id].Condition
    /\ row.Platforms = contacts[random_id].Platforms
    /\ row.phoneType = contacts[random_id].phoneType
    /\ {row.submission_ids_list[k] : k \in DOMAIN row.submission_ids_list}
           = {submission_id \in DOMAIN diary_data : diary_data[submission_id] = random_id}
    /\ row.num_submission_ids
           = Cardinality({submission_id \in DOMAIN diary_data :
                              diary_data[submission_id] = random_id})

\* C27: when generate_ios_participant_report has run on a diary file and a
\* contact list that exist, it returned True and participant_report_ios.csv
\* holds exactly one row for each RANDOM_ID that is in the diary identity
\* data and in the contact list, with the participant's contact fields and
\* the submission IDs the participant reported.
C27_IosParticipantReport ==
    /\ pc \in {"ios_check", "ios_return_0", "ios_return_1"}
    /\ Exists(diary_file)
    /\ Exists(contact_file)
    => /\ ios_report_success = "True"
       /\ Exists(ios_report_file)
       /\ LET diary_data == load_diary_unique_tuples(diary_file.rows)
              contacts == load_contact_list_data(contact_file)
              rows == ios_report_file.rows
          IN  /\ Len(rows) = Cardinality(IosParticipants(diary_data, contacts))
              /\ \A random_id \in IosParticipants(diary_data, contacts) :
                     \E r \in DOMAIN rows : IosRowOf(rows[r], random_id, diary_data, contacts)

-----------------------------------------------------------------------------
(* C28: the donations of the report in main and in general *)

\* main from the decoded files on, and generate_participant_report on any
\* lists of joined records
InitReports == InitJoin \/ InitReport

NextReports == NextJoin \/ NextReport

SpecReports == InitReports /\ [][NextReports]_vars

\* C28: every row of a participant report has at least one donation record
\* and at least one and at most as many unique donations as records; in the
\* report of main, which is made of the lists the two deduplicators return,
\* the unique donations are as many as the records and the uniqueness ratio
\* is 1.
C28_UniqueEqualsTotal ==
    \A r \in 1..Len(participant_report) :
        /\ 1 <= participant_report[r].num_unique_donations
        /\ participant_report[r].num_unique_donations
               <= participant_report[r].total_donation_records
        /\ participant_report[r].uniqueness_ratio
               = <<participant_report[r].num_unique_donations,
                   participant_report[r].total_donation_records>>
        /\ pc \in {"statistics", "done"}
               => participant_report[r].num_unique_donations
                      = participant_report[r].total_donation_records

\* main reported on a participant of whom a deduplicator removed a record
C28_Witness ==
    /\ pc = "statistics"
    /\ Len(deduplicated_app_usage) = 1
    /\ Len(perform_left_join(app_usage_data, submission_mapping, contact_data)) = 2
    /\ Len(participant_report) = 1
    /\ participant_report[1].total_donation_records >= 1

-----------------------------------------------------------------------------
(* C29: which row decides the RANDOM_ID of a submission ID *)

\* a row that load_diary_unique_tuples accepts: it has a RANDOM_ID and IDs,
\* and no earlier row with a RANDOM_ID has the same sorted ID tuple
AcceptedRow(rows, j) == RowValid(rows[j]) /\ ~RepeatsEarlierTuple(rows, j)

ListsId(row, sid) == \E k \in 1..Len(RowIds(row)) : RowIds(row)[k] = sid

\* C29: the diary map has exactly the submission IDs that the accepted rows
\* list, and each is mapped to the RANDOM_ID of the last accepted row that
\* lists it; a row that repeats the sorted ID tuple of an earlier row with a
\* RANDOM_ID is not accepted, whatever its own RANDOM_ID.
C29_LastAcceptedRowWins ==
    DiaryLoaded =>
        /\ \A j \in 1..Len(DiaryRows) :
               AcceptedRow(DiaryRows, j) =>
                   \A k \in 1..Len(RowIds(DiaryRows[j])) :
                       RowIds(DiaryRows[j])[k] \in DOMAIN diary_submission_mapping
        /\ \A sid \in DOMAIN diary_submission_mapping :
               \E j \in 1..Len(DiaryRows) :
                   /\ AcceptedRow(DiaryRows, j)
                   /\ ListsId(DiaryRows[j], sid)
                   /\ \A i \in (j + 1)..Len(DiaryRows) :
                          ~(AcceptedRow(DiaryRows, i) /\ ListsId(DiaryRows[i], sid))
                   /\ diary_submission_mapping[sid] = RowRandomId(DiaryRows[j])

\* C29 witness: two accepted rows with different RANDOM_IDs list one ID, which
\* has the RANDOM_ID of the later row, and a third row repeats the tuple of
\* the first under another RANDOM_ID and left no trace
C29_Witness ==
    /\ DiaryLoaded
    /\ \E i, j, n \in 1..Len(DiaryRows), sid \in DOMAIN diary_submission_mapping :
           /\ i < j
           /\ AcceptedRow(DiaryRows, i) /\ AcceptedRow(DiaryRows, j)
           /\ ListsId(DiaryRows[i], sid) /\ ListsId(DiaryRows[j], sid)
           /\ RowRandomId(DiaryRows[i]) # RowRandomId(DiaryRows[j])
           /\ diary_submission_mapping[sid] = RowRandomId(DiaryRows[j])
           /\ i < n
           /\ RepeatsEarlierTuple(DiaryRows, n)
           /\ SameIdTuple(DiaryRows[i], DiaryRows[n])
           /\ RowRandomId(DiaryRows[n]) # RowRandomId(DiaryRows[i])
           /\ \A s \in DOMAIN diary_submission_mapping :
                  ListsId(DiaryRows[n], s) /\ ~ListsId(DiaryRows[j], s)
                      => diary_submission_mapping[s] = RowRandomId(DiaryRows[i])

-----------------------------------------------------------------------------
(* The app classifier: ocr/app_game_classifier.py *)

MaxBatches == 2

MaxBatchApps == 2

\* _normalize_app_name: app_name.strip().lower()
normalize_app_name(app_name) == Lower(Strip(app_name))

\* a game under two spellings, and another app
AppNames == { <<"C", "h", "e", "s", "s">>, <<" ", "c", "h", "e", "s", "s">>, <<"M", "a", "p", "s">> }

\* the entry of an app in the results and in the cache, without its
\* timestamp and model name
Classification(is_game, confidence, reasoning) ==
    [is_game |-> is_game, confidence |-> confidence, reasoning |-> reasoning]

\* what the model says of an app when it answers
model_says(app_name) ==
    Classification(normalize_app_name(app_name) = <<"c", "h", "e", "s", "s">>, 9, "model")

\* what generate_content and the parsing give: the API raises; JSON that
\* validates, with every app of the prompt; text without any JSON object;
\* text that does not validate but holds the object of the first app
ClassifierResponses == {"api_error", "valid", "no_json", "partial_json"}

\* the list of (app_name, classification) that the loop over classifications
\* goes through; _extract_partial_classifications gives the objects found
\* or, without any, a default for every app of the prompt
classifications_of(response, uncached_apps) ==
    CASE response = "valid" ->
             [k \in 1..Len(uncached_apps) |->
                 [app_name |-> uncached_apps[k], entry |-> model_says(uncached_apps[k])]]
      [] response = "partial_json" ->
             <<[app_name |-> uncached_apps[1], entry |-> model_says(uncached_apps[1])]>>
      [] OTHER ->
             [k \in 1..Len(uncached_apps) |->
                 [app_name |-> uncached_apps[k],
                  entry |-> Classification(FALSE, 1,
                                "Classification failed - defaulted to not a game")]]

\* for classification in classifications: new_results[app_name] = ... and
\* self.cache[normalized_name] = ...
RECURSIVE process_classifications(_, _, _)
process_classifications(classifications, results_so_far, cache) ==
    IF classifications = <<>> THEN [new_results |-> results_so_far, cache |-> cache]
    ELSE process_classifications(
             Tail(classifications),
             DictSet(results_so_far, Head(classifications).app_name, Head(classifications).entry),
             DictSet(cache, normalize_app_name(Head(classifications).app_name),
                     Head(classifications).entry))

\* the except branch: a default entry for every app of the prompt
failed_results(uncached_apps) ==
    [app_name \in {uncached_apps[k] : k \in 1..Len(uncached_apps)} |->
        Classification(FALSE, 1, "Classification failed")]

\* the apps of the batch that have no cache entry, in their order
uncached_of(app_names, cache) ==
    SelectSeq(app_names, LAMBDA app_name : normalize_app_name(app_name) \notin DOMAIN cache)

cached_results_of(app_names, cache) ==
    [app_name \in {app_names[k] : k \in {i \in 1..Len(app_names) :
                       normalize_app_name(app_names[i]) \in DOMAIN cache}} |->
        cache[normalize_app_name(app_name)]]

\* classify_apps_batch: the results it returns, the cache and the cache file
\* afterwards, and the apps of the prompt (none without a call of the model)
classify_apps_batch(app_names, cache, cache_file, response) ==
    LET uncached_apps == uncached_of(app_names, cache)
        done == process_classifications(classifications_of(response, uncached_apps),
                                        EmptyDict, cache)
    IN  IF uncached_apps = <<>>
        THEN [results |-> cached_results_of(app_names, cache), cache |-> cache,
              cache_file |-> cache_file, prompt |-> <<>>]
        ELSE IF response = "api_error"
        THEN [results |-> failed_results(uncached_apps) @@ cached_results_of(app_names, cache),
              cache |-> cache, cache_file |-> cache_file, prompt |-> uncached_apps]
        ELSE [results |-> done.new_results @@ cached_results_of(app_names, cache),
              cache |-> done.cache, cache_file |-> done.cache, prompt |-> uncached_apps]

NoClassifier == [pc |-> "idle"]

\* a classifier after __init__: no cache file, or the file of an earlier run
\* loaded into the cache
InitClassifier ==
    /\ \E cache \in {EmptyDict,
                     <<"m", "a", "p", "s">> :> model_says(<<"M", "a", "p", "s">>)} :
           classifier = [pc |-> "ready", cache |-> cache, cache_file |-> cache, batches |-> 0,
                         app_names |-> <<>>, response |-> "none", cache_before |-> cache,
                         prompt |-> <<>>, results |-> EmptyDict]
    /\ OcrIdle
    /\ RetryIdle
    /\ PullIdle
    /\ IosIdle
    /\ TwilioIdle
    /\ AggIdle
    /\ JobIdle
    /\ DedupIdle
    /\ MainIdle
    /\ CalendarIdle
    /\ JoinIdle
    /\ DecodeIdle

\* one call of classify_apps_batch
ClassifyAppsBatch ==
    /\ classifier.pc = "ready"
    /\ classifier.batches < MaxBatches
    /\ \E app_names \in SeqUpTo(AppNames, MaxBatchApps), response \in ClassifierResponses :
           LET done == classify_apps_batch(app_names, classifier.cache,
                                           classifier.cache_file, response)
           IN  classifier' = [pc |-> "ready", cache |-> done.cache,
                              cache_file |-> done.cache_file,
                              batches |-> classifier.batches + 1,
                              app_names |-> app_names, response |-> response,
                              cache_before |-> classifier.cache,
                              prompt |-> done.prompt, results |-> done.results]
    /\ UNCHANGED <<ocrVars, retryVars, pullVars, iosVars, twilioVars, aggVars, jobVars,
                   dedupVars, mainVars, calendarVars, joinVars, decodeVars>>

NextClassifier == ClassifyAppsBatch

SpecClassifier == InitClassifier /\ [][NextClassifier]_vars

-----------------------------------------------------------------------------
(* C30: what the classification cache holds *)

\* a classification failed: the default of not a game with confidence 1
FailureDefault(entry) ==
    /\ ~entry.is_game
    /\ entry.confidence = 1
    /\ entry.reasoning \in {"Classification failed",
                            "Classification failed - defaulted to not a game"}

\* C30: after any calls of classify_apps_batch, the prompt of the last call
\* held no app whose trimmed, lower-cased name was a cache key, the cache and
\* the cache file hold no failure default, and an app that got a failure
\* default in the results has no cache entry, so that a later call asks the
\* model again.
C30_CacheHoldsModelAnswers ==
    classifier.pc = "ready" =>
        /\ \A k \in 1..Len(classifier.prompt) :
               normalize_app_name(classifier.prompt[k]) \notin DOMAIN classifier.cache_before
        /\ \A key \in DOMAIN classifier.cache_file :
               ~FailureDefault(classifier.cache_file[key])
        /\ \A key \in DOMAIN classifier.cache : ~FailureDefault(classifier.cache[key])
        /\ \A app_name \in DOMAIN classifier.results :
               FailureDefault(classifier.results[app_name])
                   => normalize_app_name(app_name) \notin DOMAIN classifier.cache

====
